---- MODULE Spec2Model ----
(***************************************************************************)
(* Model of the planner-mcp task planner: the plan file and the tool       *)
(* handlers that read and write it (the stdio MCP server and the API       *)
(* route's direct implementation), and the chat panel's natural-language   *)
(* command interpretation (parseTaskCommand, parseDayTimeSpec,             *)
(* categorizeTask, findTaskByName, detectAndExecuteToolActions).           *)
(*                                                                         *)
(* Strings are sequences of one-character strings, so that toLowerCase,    *)
(* startsWith, includes, split, trim and the regular expressions are       *)
(* computed character by character as the code computes them.  An optional *)
(* property of a JavaScript object (timeSlot?, archived?, date?) is a      *)
(* field that is in the record's DOMAIN only when it is set.               *)
(***************************************************************************)
EXTENDS Integers, Sequences, FiniteSets, TLC

(***************************************************************************)
(* Bounds of the model.                                                    *)
(***************************************************************************)
MaxTasks == 2

MaxClock == 2

MaxStale == 1

NumTodays == 2

\* the most tasks a plan file holds when the servers start
MaxLoaded == 4

(***************************************************************************)
(* String primitives.                                                      *)
(***************************************************************************)
UpperChars == <<"A","B","C","D","E","F","G","H","I","J","K","L","M",
                "N","O","P","Q","R","S","T","U","V","W","X","Y","Z">>

LowerChars == <<"a","b","c","d","e","f","g","h","i","j","k","l","m",
                "n","o","p","q","r","s","t","u","v","w","x","y","z">>

DigitChars == <<"0","1","2","3","4","5","6","7","8","9">>

\* the lower-case letter of each upper-case letter
LowerOf ==
  [c \in {UpperChars[i] : i \in 1..26} |->
     LowerChars[CHOOSE i \in 1..26 : UpperChars[i] = c]]

toLowerCaseChar(c) == IF c \in DOMAIN LowerOf THEN LowerOf[c] ELSE c

\* a comparison that forgets the case conversion: the string as typed
keepCase(s) == s

\* String.prototype.toLowerCase
toLowerCase(s) == [i \in 1..Len(s) |-> toLowerCaseChar(s[i])]

\* the characters \s matches and trim() removes (the model's alphabet has one)
IsSpace(c) == c = " "

\* the characters \w matches
WordChars ==
  {UpperChars[i] : i \in 1..26} \cup {LowerChars[i] : i \in 1..26}
    \cup {DigitChars[i] : i \in 1..10} \cup {"_"}

IsWordChar(c) == c \in WordChars

\* s.substring(i - 1): the suffix of s that starts at the (1-based) index i
Suffix(s, i) == IF i > Len(s) THEN <<>> ELSE SubSeq(s, i, Len(s))

\* true when p occurs in s at the (1-based) index i
OccursAt(s, p, i) ==
  /\ i >= 1
  /\ i + Len(p) - 1 <= Len(s)
  /\ \A j \in 1..Len(p) : s[i + j - 1] = p[j]

\* String.prototype.startsWith
startsWith(s, p) == OccursAt(s, p, 1)

\* String.prototype.includes
includes(s, p) == \E i \in 1..(Len(s) + 1) : OccursAt(s, p, i)

RECURSIVE TrimStart(_)
TrimStart(s) ==
  IF s # <<>> /\ IsSpace(s[1]) THEN TrimStart(Tail(s)) ELSE s

RECURSIVE TrimEnd(_)
TrimEnd(s) ==
  IF s # <<>> /\ IsSpace(s[Len(s)]) THEN TrimEnd(SubSeq(s, 1, Len(s) - 1)) ELSE s

\* String.prototype.trim
trim(s) == TrimEnd(TrimStart(s))

\* index of the first character at or after i that is not white space
RECURSIVE SkipSpaces(_, _)
SkipSpaces(s, i) ==
  IF i <= Len(s) /\ IsSpace(s[i]) THEN SkipSpaces(s, i + 1) ELSE i

\* s.split(/\s+/): a leading or trailing run of white space gives an empty
\* first or last element, as in JavaScript
RECURSIVE SplitFrom(_, _, _)
SplitFrom(s, i, cur) ==
  IF i > Len(s) THEN <<cur>>
  ELSE IF IsSpace(s[i]) THEN <<cur>> \o SplitFrom(s, SkipSpaces(s, i), <<>>)
  ELSE SplitFrom(s, i + 1, Append(cur, s[i]))

splitWhitespace(s) == SplitFrom(s, 1, <<>>)

\* Number.prototype.toString for a natural number: its decimal digits
RECURSIVE toString(_)
toString(n) ==
  IF n < 10 THEN <<DigitChars[n + 1]>>
  ELSE Append(toString(n \div 10), DigitChars[(n % 10) + 1])

\* a record without fields: an object none of whose optional properties is set
NoFields == <<>>

\* the JavaScript value null
Null == [null |-> TRUE]

\* the last of the elements that pass the test, else Null
findLast(passing) == IF passing = <<>> THEN Null ELSE passing[Len(passing)]

\* Array.prototype.find, given the elements that pass the test in array
\* order: the first of them, else Null
find(passing) == IF passing = <<>> THEN Null ELSE passing[1]

\* f.p = v on an object: sets the property, adding it when it was not set
SetField(f, p, v) == (p :> v) @@ f

(***************************************************************************)
(* categorizeTask (API route): the time slot guessed from a task's text.   *)
(***************************************************************************)
morningKeywords ==
  << <<"b", "r", "e", "a", "k", "f", "a", "s", "t">>,
     <<"c", "o", "f", "f", "e", "e">>,
     <<"m", "o", "r", "n", "i", "n", "g">>,
     <<"w", "a", "k", "e", " ", "u", "p">>,
     <<"s", "h", "o", "w", "e", "r">>,
     <<"e", "x", "e", "r", "c", "i", "s", "e">>,
     <<"g", "y", "m">>,
     <<"j", "o", "g">>,
     <<"r", "u", "n">>,
     <<"m", "e", "d", "i", "t", "a", "t", "i", "o", "n">>,
     <<"y", "o", "g", "a">>,
     <<"c", "h", "e", "c", "k", " ", "e", "m", "a", "i", "l">>,
     <<"r", "e", "v", "i", "e", "w">>,
     <<"p", "l", "a", "n", " ", "d", "a", "y">>,
     <<"m", "o", "r", "n", "i", "n", "g", " ", "r", "o", "u", "t", "i", "n", "e">>,
     <<"g", "e", "t", " ", "r", "e", "a", "d", "y">>,
     <<"c", "o", "m", "m", "u", "t", "e">>,
     <<"e", "a", "r", "l", "y">>,
     <<"d", "a", "w", "n">>,
     <<"s", "u", "n", "r", "i", "s", "e">> >>

afternoonKeywords ==
  << <<"l", "u", "n", "c", "h">>,
     <<"m", "e", "e", "t", "i", "n", "g">>,
     <<"w", "o", "r", "k">>,
     <<"c", "a", "l", "l">>,
     <<"a", "p", "p", "o", "i", "n", "t", "m", "e", "n", "t">>,
     <<"e", "r", "r", "a", "n", "d", "s">>,
     <<"s", "h", "o", "p", "p", "i", "n", "g">>,
     <<"g", "r", "o", "c", "e", "r", "y">>,
     <<"b", "a", "n", "k">>,
     <<"o", "f", "f", "i", "c", "e">>,
     <<"p", "r", "o", "j", "e", "c", "t">>,
     <<"d", "e", "a", "d", "l", "i", "n", "e">>,
     <<"p", "r", "e", "s", "e", "n", "t", "a", "t", "i", "o", "n">>,
     <<"c", "o", "n", "f", "e", "r", "e", "n", "c", "e">>,
     <<"i", "n", "t", "e", "r", "v", "i", "e", "w">>,
     <<"d", "o", "c", "t", "o", "r">>,
     <<"d", "e", "n", "t", "i", "s", "t">>,
     <<"p", "i", "c", "k", "u", "p">>,
     <<"d", "r", "o", "p", " ", "o", "f", "f">> >>

eveningKeywords ==
  << <<"d", "i", "n", "n", "e", "r">>,
     <<"c", "o", "o", "k">>,
     <<"e", "v", "e", "n", "i", "n", "g">>,
     <<"n", "i", "g", "h", "t">>,
     <<"a", "f", "t", "e", "r", " ", "w", "o", "r", "k">>,
     <<"r", "e", "l", "a", "x">>,
     <<"u", "n", "w", "i", "n", "d">>,
     <<"w", "a", "t", "c", "h">>,
     <<"m", "o", "v", "i", "e">>,
     <<"t", "v">>,
     <<"r", "e", "a", "d">>,
     <<"b", "o", "o", "k">>,
     <<"f", "a", "m", "i", "l", "y", " ", "t", "i", "m", "e">>,
     <<"d", "a", "t", "e">>,
     <<"f", "r", "i", "e", "n", "d", "s">>,
     <<"b", "a", "r">>,
     <<"r", "e", "s", "t", "a", "u", "r", "a", "n", "t">>,
     <<"l", "a", "t", "e">>,
     <<"s", "u", "n", "s", "e", "t">>,
     <<"b", "e", "d", "t", "i", "m", "e">>,
     <<"s", "l", "e", "e", "p">> >>

\* the number of keywords of the list that occur in the text
KeywordScore(keywords, lowerText) ==
  Cardinality({i \in 1..Len(keywords) : includes(lowerText, keywords[i])})

\* lowerText.match(/\b[6-9]\s*(:|am|\s*am)/)
MatchesMorningHour(lowerText) ==
  \E i \in 1..Len(lowerText) :
    /\ lowerText[i] \in {"6", "7", "8", "9"}
    /\ i = 1 \/ ~IsWordChar(lowerText[i - 1])
    /\ LET j == SkipSpaces(lowerText, i + 1)
       IN  OccursAt(lowerText, <<":">>, j) \/ OccursAt(lowerText, <<"a", "m">>, j)

\* a categorizeTask that looks for the morning tokens before lunch
categorizeTaskMorningFirst(text) ==
  LET lowerText == toLowerCase(text)
      morningScore == KeywordScore(morningKeywords, lowerText)
      afternoonScore == KeywordScore(afternoonKeywords, lowerText)
      eveningScore == KeywordScore(eveningKeywords, lowerText)
  IN  IF \/ includes(lowerText, <<"a", "m">>)
         \/ includes(lowerText, <<"m", "o", "r", "n", "i", "n", "g">>)
         \/ MatchesMorningHour(lowerText) THEN "morning"
      ELSE IF includes(lowerText, <<"l", "u", "n", "c", "h">>) THEN "afternoon"
      ELSE IF /\ includes(lowerText, <<"p", "m">>)
              /\ \/ includes(lowerText, <<"6">>) \/ includes(lowerText, <<"7">>)
                 \/ includes(lowerText, <<"8">>) \/ includes(lowerText, <<"9">>)
                 \/ includes(lowerText, <<"1", "0">>) THEN "evening"
      ELSE IF \/ includes(lowerText, <<"e", "v", "e", "n", "i", "n", "g">>)
              \/ includes(lowerText, <<"n", "i", "g", "h", "t">>)
              \/ includes(lowerText, <<"t", "o", "n", "i", "g", "h", "t">>) THEN "evening"
      ELSE IF morningScore = 0 /\ afternoonScore = 0 /\ eveningScore = 0
        THEN "undefined"
      ELSE IF morningScore >= afternoonScore /\ morningScore >= eveningScore
        THEN "morning"
      ELSE IF afternoonScore >= eveningScore THEN "afternoon"
      ELSE "evening"

\* a categorizeTask in which a slot wins only with a strictly greater count:
\* a tie falls through to the next slot
categorizeTaskStrictlyGreatest(text) ==
  LET lowerText == toLowerCase(text)
      morningScore == KeywordScore(morningKeywords, lowerText)
      afternoonScore == KeywordScore(afternoonKeywords, lowerText)
      eveningScore == KeywordScore(eveningKeywords, lowerText)
  IN  IF includes(lowerText, <<"l", "u", "n", "c", "h">>) THEN "afternoon"
      ELSE IF \/ includes(lowerText, <<"a", "m">>)
              \/ includes(lowerText, <<"m", "o", "r", "n", "i", "n", "g">>)
              \/ MatchesMorningHour(lowerText) THEN "morning"
      ELSE IF /\ includes(lowerText, <<"p", "m">>)
              /\ \/ includes(lowerText, <<"6">>) \/ includes(lowerText, <<"7">>)
                 \/ includes(lowerText, <<"8">>) \/ includes(lowerText, <<"9">>)
                 \/ includes(lowerText, <<"1", "0">>) THEN "evening"
      ELSE IF \/ includes(lowerText, <<"e", "v", "e", "n", "i", "n", "g">>)
              \/ includes(lowerText, <<"n", "i", "g", "h", "t">>)
              \/ includes(lowerText, <<"t", "o", "n", "i", "g", "h", "t">>) THEN "evening"
      ELSE IF morningScore = 0 /\ afternoonScore = 0 /\ eveningScore = 0
        THEN "undefined"
      ELSE IF morningScore > afternoonScore /\ morningScore > eveningScore
        THEN "morning"
      ELSE IF afternoonScore > eveningScore THEN "afternoon"
      ELSE "evening"

categorizeTask(text) ==
  LET lowerText == toLowerCase(text)
      morningScore == KeywordScore(morningKeywords, lowerText)
      afternoonScore == KeywordScore(afternoonKeywords, lowerText)
      eveningScore == KeywordScore(eveningKeywords, lowerText)
  IN  IF includes(lowerText, <<"l", "u", "n", "c", "h">>) THEN "afternoon"
      ELSE IF \/ includes(lowerText, <<"a", "m">>)
              \/ includes(lowerText, <<"m", "o", "r", "n", "i", "n", "g">>)
              \/ MatchesMorningHour(lowerText) THEN "morning"
      ELSE IF /\ includes(lowerText, <<"p", "m">>)
              /\ \/ includes(lowerText, <<"6">>) \/ includes(lowerText, <<"7">>)
                 \/ includes(lowerText, <<"8">>) \/ includes(lowerText, <<"9">>)
                 \/ includes(lowerText, <<"1", "0">>) THEN "evening"
      ELSE IF \/ includes(lowerText, <<"e", "v", "e", "n", "i", "n", "g">>)
              \/ includes(lowerText, <<"n", "i", "g", "h", "t">>)
              \/ includes(lowerText, <<"t", "o", "n", "i", "g", "h", "t">>) THEN "evening"
      ELSE IF morningScore = 0 /\ afternoonScore = 0 /\ eveningScore = 0
        THEN "undefined"
      ELSE IF morningScore >= afternoonScore /\ morningScore >= eveningScore
        THEN "morning"
      ELSE IF afternoonScore >= eveningScore THEN "afternoon"
      ELSE "evening"

(***************************************************************************)
(* commandProcessor: parseDayTimeSpec, parseTaskCommand, getTabForDate.    *)
(* A Date at local midnight is the number of its day; day 0 is a Sunday,   *)
(* so getDay() is the day number modulo 7.                                 *)
(***************************************************************************)
getDay(date) == date % 7

\* Object.entries(timeSlotMap), in declaration order
timeSlotMap ==
  << [key |-> <<"m", "o", "r", "n", "i", "n", "g">>, slot |-> "morning"],
     [key |-> <<"a", "f", "t", "e", "r", "n", "o", "o", "n">>, slot |-> "afternoon"],
     [key |-> <<"e", "v", "e", "n", "i", "n", "g">>, slot |-> "evening"],
     [key |-> <<"a", "m">>, slot |-> "morning"],
     [key |-> <<"p", "m">>, slot |-> "afternoon"],
     [key |-> <<"n", "i", "g", "h", "t">>, slot |-> "evening"] >>

\* Object.entries(dayPatterns), in declaration order
dayPatterns ==
  << [key |-> <<"t", "o", "d", "a", "y">>, dayOfWeek |-> 0],
     [key |-> <<"t", "o", "m", "o", "r", "r", "o", "w">>, dayOfWeek |-> 1],
     [key |-> <<"m", "o", "n", "d", "a", "y">>, dayOfWeek |-> 1],
     [key |-> <<"t", "u", "e", "s", "d", "a", "y">>, dayOfWeek |-> 2],
     [key |-> <<"w", "e", "d", "n", "e", "s", "d", "a", "y">>, dayOfWeek |-> 3],
     [key |-> <<"t", "h", "u", "r", "s", "d", "a", "y">>, dayOfWeek |-> 4],
     [key |-> <<"f", "r", "i", "d", "a", "y">>, dayOfWeek |-> 5],
     [key |-> <<"s", "a", "t", "u", "r", "d", "a", "y">>, dayOfWeek |-> 6],
     [key |-> <<"s", "u", "n", "d", "a", "y">>, dayOfWeek |-> 0],
     [key |-> <<"m", "o", "n">>, dayOfWeek |-> 1],
     [key |-> <<"t", "u", "e">>, dayOfWeek |-> 2],
     [key |-> <<"t", "u", "e", "s">>, dayOfWeek |-> 2],
     [key |-> <<"w", "e", "d">>, dayOfWeek |-> 3],
     [key |-> <<"t", "h", "u">>, dayOfWeek |-> 4],
     [key |-> <<"t", "h", "u", "r", "s">>, dayOfWeek |-> 4],
     [key |-> <<"f", "r", "i">>, dayOfWeek |-> 5],
     [key |-> <<"s", "a", "t">>, dayOfWeek |-> 6],
     [key |-> <<"s", "u", "n">>, dayOfWeek |-> 0] >>

\* index of the last entry of the table whose key occurs in the text, else 0
LastKeyIn(table, text) ==
  IF \E i \in 1..Len(table) : includes(text, table[i].key)
    THEN CHOOSE i \in 1..Len(table) :
           /\ includes(text, table[i].key)
           /\ \A j \in (i + 1)..Len(table) : ~includes(text, table[j].key)
    ELSE 0

\* index of the first entry of the table whose key occurs in the text, else 0
FirstKeyIn(table, text) ==
  IF \E i \in 1..Len(table) : includes(text, table[i].key)
    THEN CHOOSE i \in 1..Len(table) :
           /\ includes(text, table[i].key)
           /\ \A j \in 1..(i - 1) : ~includes(text, table[j].key)
    ELSE 0

\* a parseDayTimeSpec that adds a week only when the target weekday is before
\* today's: naming today's weekday gives today
parseDayTimeSpecSameDay(spec, today) ==
  LET normalizedSpec == trim(toLowerCase(spec))
      s == FirstKeyIn(timeSlotMap, normalizedSpec)
      slotPart == IF s = 0 THEN NoFields ELSE [timeSlot |-> timeSlotMap[s].slot]
      todayDayOfWeek == getDay(today)
      d == FirstKeyIn(dayPatterns, normalizedSpec)
      daysUntilTarget == dayPatterns[d].dayOfWeek - todayDayOfWeek
      dayPart ==
        IF includes(normalizedSpec, <<"t", "o", "d", "a", "y">>)
          THEN [day |-> <<"t", "o", "d", "a", "y">>, date |-> today]
        ELSE IF includes(normalizedSpec, <<"t", "o", "m", "o", "r", "r", "o", "w">>)
          THEN [day |-> <<"t", "o", "m", "o", "r", "r", "o", "w">>, date |-> today + 1]
        ELSE IF d # 0
          THEN [day |-> dayPatterns[d].key,
                date |-> today + (IF daysUntilTarget < 0
                                    THEN daysUntilTarget + 7
                                    ELSE daysUntilTarget)]
        ELSE NoFields
  IN  slotPart @@ dayPart

\* the properties day, timeSlot and date are in the result only when set
parseDayTimeSpec(spec, today) ==
  LET normalizedSpec == trim(toLowerCase(spec))
      s == FirstKeyIn(timeSlotMap, normalizedSpec)
      slotPart == IF s = 0 THEN NoFields ELSE [timeSlot |-> timeSlotMap[s].slot]
      todayDayOfWeek == getDay(today)
      d == FirstKeyIn(dayPatterns, normalizedSpec)
      daysUntilTarget == dayPatterns[d].dayOfWeek - todayDayOfWeek
      dayPart ==
        IF includes(normalizedSpec, <<"t", "o", "d", "a", "y">>)
          THEN [day |-> <<"t", "o", "d", "a", "y">>, date |-> today]
        ELSE IF includes(normalizedSpec, <<"t", "o", "m", "o", "r", "r", "o", "w">>)
          THEN [day |-> <<"t", "o", "m", "o", "r", "r", "o", "w">>, date |-> today + 1]
        ELSE IF d # 0
          THEN [day |-> dayPatterns[d].key,
                date |-> today + (IF daysUntilTarget <= 0
                                    THEN daysUntilTarget + 7
                                    ELSE daysUntilTarget)]
        ELSE NoFields
  IN  slotPart @@ dayPart

\* the templates /^PRE(.+?)SEP\s*(.+)$/ of addTaskPatterns, in order
addTaskPatterns ==
  << [pre |-> <<"a", "d", "d", " ", "t", "a", "s", "k", " ", "f", "o", "r", " ">>, sep |-> <<":">>],
     [pre |-> <<"a", "d", "d", " ">>, sep |-> <<" ", "t", "a", "s", "k", ":">>],
     [pre |-> <<"a", "d", "d", " ">>, sep |-> <<":">>],
     [pre |-> <<>>, sep |-> <<" ", "t", "a", "s", "k", ":">>],
     [pre |-> <<"t", "a", "s", "k", " ", "f", "o", "r", " ">>, sep |-> <<":">>] >>

\* the positions where the separator can end the lazy group (.+?): the group
\* has at least one character and at least one character follows the
\* separator for (.+)
SepPositions(s, p) ==
  {k \in (Len(p.pre) + 2)..Len(s) :
     /\ OccursAt(s, p.sep, k)
     /\ k + Len(p.sep) <= Len(s)}

PatternMatches(s, p) == startsWith(s, p.pre) /\ SepPositions(s, p) # {}

\* match[1] and match[2] of normalizedInput.match(pattern): the lazy group
\* stops at the first position that lets the rest match, \s* is greedy
PatternGroups(s, p) ==
  LET k == CHOOSE x \in SepPositions(s, p) : \A y \in SepPositions(s, p) : x <= y
  IN  [dayTimeSpec |-> SubSeq(s, Len(p.pre) + 1, k - 1),
       taskText |-> TrimStart(Suffix(s, k + Len(p.sep)))]

parseTaskCommand(input, today) ==
  LET normalizedInput == trim(toLowerCase(input))
      hits == {i \in 1..Len(addTaskPatterns) :
                 PatternMatches(normalizedInput, addTaskPatterns[i])}
      first == CHOOSE i \in hits : \A j \in hits : i <= j
      match == PatternGroups(normalizedInput, addTaskPatterns[first])
  IN  IF hits = {}
        THEN [success |-> FALSE, error |-> "Could not parse command"]
        ELSE [success |-> TRUE,
              command |-> [action |-> "add-task", taskText |-> trim(match.taskText)]
                            @@ parseDayTimeSpec(match.dayTimeSpec, today)]

\* dayDiff is the number of whole days from today's midnight to the date
getTabForDate(date, today) ==
  LET dayDiff == date - today
  IN  IF dayDiff >= 0 /\ dayDiff < 7 THEN dayDiff ELSE 0

(***************************************************************************)
(* The inputs of the model.                                                *)
(***************************************************************************)
CallMom == <<"C", "a", "l", "l", " ", "m", "o", "m">>

CallDad == <<"C", "a", "l", "l", " ", "d", "a", "d">>

\* the texts a client adds tasks with
TaskTexts == {CallMom, CallDad}

\* the time slot argument of add_task: a slot, or "undefined" for none
SlotArgs == {"undefined", "morning"}

\* the utterances typed into the chat panel
UserMessages ==
  { <<"a", "d", "d", " ", "t", "a", "s", "k", " ", "f", "o", "r", " ", "t", "u", "e", "s", "d", "a", "y", " ", "m", "o", "r", "n", "i", "n", "g", ":", " ", "C", "a", "l", "l", " ", "m", "o", "m">>,
    <<"a", "d", "d", " ", "t", "o", "m", "o", "r", "r", "o", "w", " ", "t", "a", "s", "k", ":", " ", "C", "a", "l", "l", " ", "d", "a", "d">>,
    <<"A", "d", "d", " ", "t", "a", "s", "k", ":", " ", "C", "a", "l", "l", " ", "d", "a", "d">>,
    <<"C", "o", "m", "p", "l", "e", "t", "e", " ", "t", "a", "s", "k", ":", " ", "C", "a", "l", "l", " ", "m", "o", "m">>,
    <<"c", "o", "m", "p", "l", "e", "t", "e", " ", "c", "a", "l", "l">>,
    <<" ">> }

\* dayPatterns.tuesday
Tuesday == 2

\* the local days on which an utterance is typed, from a Tuesday on
FirstToday == 7 + Tuesday

Todays == FirstToday..(FirstToday + NumTodays - 1)

\* parseTaskCommand for the utterances and days of the model, computed once
parseTaskCommandTable ==
  [input \in {trim(u) : u \in UserMessages} |->
     [today \in Todays |-> parseTaskCommand(input, today)]]

parseTaskCommandCached(input, today) == parseTaskCommandTable[input][today]

\* texts for categorizeTask: with lunch, with the tokens of one or several
\* of its rules, with keywords of one or several slots, with none
CategorizeTexts ==
  { <<"L", "u", "n", "c", "h">>,
    <<"T", "e", "a", "m", " ", "l", "u", "n", "c", "h", " ", "9", "a", "m">>,
    <<"L", "u", "n", "c", "h", " ", "7", "p", "m", " ", "t", "o", "n", "i", "g", "h", "t">>,
    <<"M", "o", "r", "n", "i", "n", "g", " ", "r", "u", "n", " ", "8", "p", "m">>,
    <<"E", "x", "a", "m", " ", "t", "o", "n", "i", "g", "h", "t">>,
    <<"D", "i", "n", "n", "e", "r", " ", "8", ":", "3", "0">>,
    <<"B", "r", "e", "a", "k", "f", "a", "s", "t", " ", "7", "p", "m">>,
    <<"G", "y", "m", " ", "t", "o", "n", "i", "g", "h", "t">>,
    <<"R", "e", "p", "o", "r", "t", " ", "2", "p", "m", " ", "g", "y", "m">>,
    <<"G", "o", " ", "f", "o", "r", " ", "a", " ", "w", "a", "l", "k">>,
    <<"C", "o", "f", "f", "e", "e">>,
    <<"M", "e", "e", "t", "i", "n", "g">>,
    <<"D", "i", "n", "n", "e", "r">>,
    <<"C", "o", "f", "f", "e", "e", " ", "m", "e", "e", "t", "i", "n", "g">>,
    <<"D", "i", "n", "n", "e", "r", " ", "m", "e", "e", "t", "i", "n", "g">>,
    <<"C", "o", "f", "f", "e", "e", " ", "d", "i", "n", "n", "e", "r">>,
    <<"C", "o", "f", "f", "e", "e", " ", "m", "e", "e", "t", "i", "n", "g", " ", "d", "i", "n", "n", "e", "r">>,
    <<"C", "o", "f", "f", "e", "e", " ", "d", "i", "n", "n", "e", "r", " ", "m", "o", "v", "i", "e">>,
    <<"C", "o", "f", "f", "e", "e", " ", "m", "e", "e", "t", "i", "n", "g", " ", "o", "f", "f", "i", "c", "e">>,
    <<"M", "e", "e", "t", "i", "n", "g", " ", "d", "i", "n", "n", "e", "r", " ", "m", "o", "v", "i", "e">> }

\* the texts tasks are added with: by a client or the classifier as typed,
\* by a parsed command in lower case
AddedTexts == TaskTexts \cup {toLowerCase(t) : t \in TaskTexts} \cup CategorizeTexts

\* categorizeTask for the texts of the model, computed once
categorizeTaskTable == [text \in AddedTexts |-> categorizeTask(text)]

categorizeTaskCached(text) == categorizeTaskTable[text]

(***************************************************************************)
(* The plan file and the tool handlers.  A Task is a record with the       *)
(* fields id, text and completed, and timeSlot and archived when set.      *)
(* A handler takes the tasks read from the file and gives the tasks it     *)
(* writes back and the text of its result; ok = FALSE is a thrown Error,   *)
(* which happens before writePlan, so nothing is written.                  *)
(***************************************************************************)
HasTimeSlot(t) == "timeSlot" \in DOMAIN t

\* !!t.archived
IsArchived(t) == "archived" \in DOMAIN t /\ t.archived

Threw(tasks, error) == [ok |-> FALSE, tasks |-> tasks, text |-> error]

Returned(tasks, text) == [ok |-> TRUE, tasks |-> tasks, text |-> text]

\* index of the first task with the id (plan.tasks.find), else 0
FindTaskIndex(tasks, taskId) ==
  IF \E i \in 1..Len(tasks) : tasks[i].id = taskId
    THEN CHOOSE i \in 1..Len(tasks) :
           /\ tasks[i].id = taskId
           /\ \A j \in 1..(i - 1) : tasks[j].id # taskId
    ELSE 0

\* add_task, the same in the stdio server and in the API route: the date
\* argument is not read
AddTaskHandler(tasks, args, now) ==
  LET newTask == [id |-> toString(now), text |-> args.text, completed |-> FALSE]
                   @@ (IF "timeSlot" \in DOMAIN args
                         THEN [timeSlot |-> args.timeSlot] ELSE NoFields)
  IN  Returned(Append(tasks, newTask), "Added task")

\* complete_task of the stdio server: toggles
CompleteTaskStdio(tasks, args) ==
  LET i == FindTaskIndex(tasks, args.taskId)
  IN  IF i = 0 THEN Threw(tasks, "Task not found")
      ELSE Returned([tasks EXCEPT ![i].completed = ~tasks[i].completed],
                    IF ~tasks[i].completed THEN "Completed task" ELSE "Uncompleted task")

\* complete_task of the API route: sets
CompleteTaskDirect(tasks, args) ==
  LET i == FindTaskIndex(tasks, args.taskId)
  IN  IF i = 0 THEN Threw(tasks, "Task not found")
      ELSE Returned([tasks EXCEPT ![i].completed = TRUE], "Completed task")

\* the number of tasks before index i, with or without a slot: the index of
\* the task in the whole list
TasksBefore(tasks, i) == i - 1

\* the number of tasks before index i that plan_day assigns a slot to
UnscheduledBefore(tasks, i) ==
  Cardinality({j \in 1..(i - 1) : ~HasTimeSlot(tasks[j]) /\ ~tasks[j].completed})

slots == <<"morning", "afternoon", "evening">>

\* a plan_day that gives a slot to every task without one, completed or not
PlanDayHandlerAlsoCompleted(tasks) ==
  Returned([i \in 1..Len(tasks) |->
              IF ~HasTimeSlot(tasks[i])
                THEN SetField(tasks[i], "timeSlot",
                              slots[(Cardinality({j \in 1..(i - 1) : ~HasTimeSlot(tasks[j])})
                                       % Len(slots)) + 1])
                ELSE tasks[i]],
           "Assigned tasks to time slots")

\* plan_day, the same in both
PlanDayHandler(tasks) ==
  Returned([i \in 1..Len(tasks) |->
              IF ~HasTimeSlot(tasks[i]) /\ ~tasks[i].completed
                THEN SetField(tasks[i], "timeSlot",
                              slots[(UnscheduledBefore(tasks, i) % Len(slots)) + 1])
                ELSE tasks[i]],
           "Assigned tasks to time slots")

\* an archive_task that does not look at the completed flag
ArchiveTaskUnchecked(tasks, args) ==
  LET i == FindTaskIndex(tasks, args.taskId)
  IN  IF i = 0 THEN Threw(tasks, "Task not found")
      ELSE Returned([tasks EXCEPT ![i] = SetField(tasks[i], "archived", TRUE)],
                    "Archived task")

\* archive_task, the same in both
ArchiveTaskHandler(tasks, args) ==
  LET i == FindTaskIndex(tasks, args.taskId)
  IN  IF i = 0 THEN Threw(tasks, "Task not found")
      ELSE IF ~tasks[i].completed THEN Threw(tasks, "Task must be completed before archiving")
      ELSE Returned([tasks EXCEPT ![i] = SetField(tasks[i], "archived", TRUE)],
                    "Archived task")

\* smart_add_task of the API route
SmartAddTaskHandler(tasks, args, now) ==
  LET timeSlot == categorizeTaskCached(args.text)
      newTask == [id |-> toString(now), text |-> args.text, completed |-> FALSE]
                   @@ (IF timeSlot # "undefined"
                         THEN [timeSlot |-> timeSlot] ELSE NoFields)
  IN  Returned(Append(tasks, newTask),
               IF timeSlot # "undefined" THEN "Added task (automatically categorized)"
                                         ELSE "Added task (no specific time detected)")

\* CallTool handler of the stdio server (it has no smart_add_task)
StdioCallTool(tasks, name, args, now) ==
  CASE name = "add_task" -> AddTaskHandler(tasks, args, now)
    [] name = "complete_task" -> CompleteTaskStdio(tasks, args)
    [] name = "plan_day" -> PlanDayHandler(tasks)
    [] name = "archive_task" -> ArchiveTaskHandler(tasks, args)
    [] OTHER -> Threw(tasks, "Unknown tool")

\* POST /api/mcp/tools/<name>, direct implementation
DirectCallTool(tasks, name, args, now) ==
  CASE name = "add_task" -> AddTaskHandler(tasks, args, now)
    [] name = "complete_task" -> CompleteTaskDirect(tasks, args)
    [] name = "plan_day" -> PlanDayHandler(tasks)
    [] name = "archive_task" -> ArchiveTaskHandler(tasks, args)
    [] name = "smart_add_task" -> SmartAddTaskHandler(tasks, args, now)
    [] OTHER -> Threw(tasks, "Unknown tool")

\* the API route's POST handler: direct on Vercel, else through the MCP
\* client to the stdio server; a thrown Error becomes a 500 response
HandleToolRequest(vercel, tasks, name, args, now) ==
  IF vercel THEN DirectCallTool(tasks, name, args, now)
            ELSE StdioCallTool(tasks, name, args, now)

\* the schedule resource: the tasks that are not archived, by time slot
ScheduleResource(tasks) ==
  LET activeTasks == SelectSeq(tasks, LAMBDA t : ~IsArchived(t))
  IN  [morning |-> SelectSeq(activeTasks, LAMBDA t : HasTimeSlot(t) /\ t.timeSlot = "morning"),
       afternoon |-> SelectSeq(activeTasks, LAMBDA t : HasTimeSlot(t) /\ t.timeSlot = "afternoon"),
       evening |-> SelectSeq(activeTasks, LAMBDA t : HasTimeSlot(t) /\ t.timeSlot = "evening"),
       unscheduled |-> SelectSeq(activeTasks, LAMBDA t : ~HasTimeSlot(t))]

(***************************************************************************)
(* The chat panel (MCPPromptsPanel).                                       *)
(***************************************************************************)
\* [...morning, ...afternoon, ...evening, ...unscheduled]
AllTasksOf(sched) ==
  sched.morning \o sched.afternoon \o sched.evening \o sched.unscheduled

\* a findTaskByName that looks for a task that starts with the name before
\* it looks for the task that equals it
findTaskByNamePrefixFirst(taskName, sched) ==
  LET allTasks == SelectSeq(AllTasksOf(sched), LAMBDA t : ~t.completed)
      lowerTaskName == toLowerCase(taskName)
      exactMatch ==
        find(SelectSeq(allTasks, LAMBDA t : toLowerCase(t.text) = lowerTaskName))
      startsWithMatch ==
        find(SelectSeq(allTasks, LAMBDA t :
                         startsWith(toLowerCase(t.text), lowerTaskName)))
      taskWords == splitWhitespace(lowerTaskName)
      containsAllWords ==
        find(SelectSeq(allTasks, LAMBDA t :
                         \A w \in 1..Len(taskWords) :
                           includes(toLowerCase(t.text), taskWords[w])))
      containsMatch ==
        find(SelectSeq(allTasks, LAMBDA t :
                         includes(toLowerCase(t.text), lowerTaskName)))
      fuzzyMatches ==
        SelectSeq(allTasks, LAMBDA t :
                    \E w \in 1..Len(taskWords) :
                      /\ Len(taskWords[w]) > 2
                      /\ includes(toLowerCase(t.text), taskWords[w]))
  IN  IF startsWithMatch # Null /\ startsWithMatch # exactMatch
        THEN [task |-> startsWithMatch, confidence |-> "high"]
      ELSE IF exactMatch # Null THEN [task |-> exactMatch, confidence |-> "exact"]
      ELSE IF containsAllWords # Null THEN [task |-> containsAllWords, confidence |-> "high"]
      ELSE IF containsMatch # Null THEN [task |-> containsMatch, confidence |-> "medium"]
      ELSE IF Len(fuzzyMatches) = 1 THEN [task |-> fuzzyMatches[1], confidence |-> "low"]
      ELSE IF Len(fuzzyMatches) > 1
        THEN [task |-> Null, confidence |-> "ambiguous", matches |-> fuzzyMatches]
      ELSE [task |-> Null, confidence |-> "none"]

\* a findTaskByName that looks for a task that contains the name before it
\* looks for one that contains each of its words
findTaskByNameSubstringFirst(taskName, sched) ==
  LET allTasks == SelectSeq(AllTasksOf(sched), LAMBDA t : ~t.completed)
      lowerTaskName == toLowerCase(taskName)
      exactMatch ==
        find(SelectSeq(allTasks, LAMBDA t : toLowerCase(t.text) = lowerTaskName))
      startsWithMatch ==
        find(SelectSeq(allTasks, LAMBDA t :
                         startsWith(toLowerCase(t.text), lowerTaskName)))
      taskWords == splitWhitespace(lowerTaskName)
      containsAllWords ==
        find(SelectSeq(allTasks, LAMBDA t :
                         \A w \in 1..Len(taskWords) :
                           includes(toLowerCase(t.text), taskWords[w])))
      containsMatch ==
        find(SelectSeq(allTasks, LAMBDA t :
                         includes(toLowerCase(t.text), lowerTaskName)))
      fuzzyMatches ==
        SelectSeq(allTasks, LAMBDA t :
                    \E w \in 1..Len(taskWords) :
                      /\ Len(taskWords[w]) > 2
                      /\ includes(toLowerCase(t.text), taskWords[w]))
  IN  IF exactMatch # Null THEN [task |-> exactMatch, confidence |-> "exact"]
      ELSE IF startsWithMatch # Null THEN [task |-> startsWithMatch, confidence |-> "high"]
      ELSE IF containsMatch # Null THEN [task |-> containsMatch, confidence |-> "medium"]
      ELSE IF containsAllWords # Null THEN [task |-> containsAllWords, confidence |-> "high"]
      ELSE IF Len(fuzzyMatches) = 1 THEN [task |-> fuzzyMatches[1], confidence |-> "low"]
      ELSE IF Len(fuzzyMatches) > 1
        THEN [task |-> Null, confidence |-> "ambiguous", matches |-> fuzzyMatches]
      ELSE [task |-> Null, confidence |-> "none"]

findTaskByName(taskName, sched) ==
  LET allTasks == SelectSeq(AllTasksOf(sched), LAMBDA t : ~t.completed)
      lowerTaskName == toLowerCase(taskName)
      exactMatch ==
        find(SelectSeq(allTasks, LAMBDA t : toLowerCase(t.text) = lowerTaskName))
      startsWithMatch ==
        find(SelectSeq(allTasks, LAMBDA t :
                         startsWith(toLowerCase(t.text), lowerTaskName)))
      taskWords == splitWhitespace(lowerTaskName)
      containsAllWords ==
        find(SelectSeq(allTasks, LAMBDA t :
                         \A w \in 1..Len(taskWords) :
                           includes(toLowerCase(t.text), taskWords[w])))
      containsMatch ==
        find(SelectSeq(allTasks, LAMBDA t :
                         includes(toLowerCase(t.text), lowerTaskName)))
      fuzzyMatches ==
        SelectSeq(allTasks, LAMBDA t :
                    \E w \in 1..Len(taskWords) :
                      /\ Len(taskWords[w]) > 2
                      /\ includes(toLowerCase(t.text), taskWords[w]))
  IN  IF exactMatch # Null THEN [task |-> exactMatch, confidence |-> "exact"]
      ELSE IF startsWithMatch # Null THEN [task |-> startsWithMatch, confidence |-> "high"]
      ELSE IF containsAllWords # Null THEN [task |-> containsAllWords, confidence |-> "high"]
      ELSE IF containsMatch # Null THEN [task |-> containsMatch, confidence |-> "medium"]
      ELSE IF Len(fuzzyMatches) = 1 THEN [task |-> fuzzyMatches[1], confidence |-> "low"]
      ELSE IF Len(fuzzyMatches) > 1
        THEN [task |-> Null, confidence |-> "ambiguous", matches |-> fuzzyMatches]
      ELSE [task |-> Null, confidence |-> "none"]

\* the values detectAndExecuteToolActions completes with
NullResult == [type |-> "null"]

Message(text) == [type |-> "message", text |-> text]

\* a rejected promise: an exception no try block of the function catches
Rejected == [type |-> "throw"]

\* date.toISOString().split('T')[0] of a local midnight: the UTC calendar day,
\* the day before for a zone east of UTC (tz > 0)
ISODateOfMidnight(date, tz) == IF tz > 0 THEN date - 1 ELSE date

\* the UTC calendar days that new Date().toISOString().split('T')[0] can give
\* during the local day today
ISODatesOfNow(today, tz) ==
  IF tz > 0 THEN {today - 1, today}
  ELSE IF tz < 0 THEN {today, today + 1}
  ELSE {today}

\* the chat panel's callTool through the API route: env holds what the
\* server side reads (the deployment, the file's tasks, the clock)
callTool(env, name, args) == HandleToolRequest(env.vercel, env.tasks, name, args, env.now)

\* what one run of detectAndExecuteToolActions did: the tasks the plan file
\* holds afterwards, the tool calls made in order, whether the classifier
\* was called, and the value returned
Outcome(tasks, calls, classified, toolResult) ==
  [tasks |-> tasks, calls |-> calls, classified |-> classified, toolResult |-> toolResult]

\* lines 183-222: the add-task command of parseTaskCommand is executed
ExecuteAddTaskCommand(command, env) ==
  LET navigate == "date" \in DOMAIN command /\ env.onNavigateToDay
      taskDate == IF navigate THEN ISODateOfMidnight(command.date, env.tz)
                              ELSE env.isoNow
      name == IF "timeSlot" \in DOMAIN command THEN "add_task" ELSE "smart_add_task"
      args == IF "timeSlot" \in DOMAIN command
                THEN [text |-> command.taskText, date |-> taskDate,
                      timeSlot |-> command.timeSlot]
                ELSE [text |-> command.taskText, date |-> taskDate]
      r == callTool(env, name, args)
  IN  Outcome(r.tasks, <<[name |-> name, args |-> args]>>, FALSE,
              IF r.ok THEN Message("Added") ELSE Message("Failed to add task"))
        @@ (IF navigate
              THEN [navigated |-> [date |-> command.date,
                                   tabId |-> getTabForDate(command.date, env.today)]]
              ELSE NoFields)

(***************************************************************************)
(* analyzeUserIntent.  The classifier's HTTP response is one of:           *)
(*   [kind |-> "http_error"]   response.ok is false                        *)
(*   [kind |-> "throws"]       fetch, response.json() or JSON.parse throws *)
(*   [kind |-> "json", value |-> v]  JSON.parse gives v, which is          *)
(*     [type |-> "null"], [type |-> "number"] or                           *)
(*     [type |-> "object", props |-> the object's properties]              *)
(* The value is returned as parsed; nothing checks its shape.              *)
(***************************************************************************)
JsonNull == [type |-> "null"]

JsonNumber == [type |-> "number"]

JsonObject(props) == [type |-> "object", props |-> props]

analyzeUserIntent(response) ==
  IF response.kind = "json" THEN response.value ELSE JsonNull

\* !intentResult
IsFalsy(v) == v.type = "null"

\* const { intent, params } = intentResult: a property that is not there
\* reads as undefined
HasIntent(v) == v.type = "object" /\ "intent" \in DOMAIN v.props

HasParams(v) == v.type = "object" /\ "params" \in DOMAIN v.props

\* params.p is truthy, for a string: set and not empty
Truthy(params, p) == p \in DOMAIN params /\ params[p] # <<>>

\* params.taskNumber is truthy: set and not 0
TruthyNumber(params) == "taskNumber" \in DOMAIN params /\ params.taskNumber # 0

\* one complete_task call for the task id and the function's return value
CompleteById(env, taskId, suffix) ==
  LET args == [taskId |-> taskId]
      r == callTool(env, "complete_task", args)
  IN  Outcome(r.tasks, <<[name |-> "complete_task", args |-> args]>>, TRUE,
              IF r.ok THEN Message(suffix) ELSE Message("Failed to complete task"))

\* no tool call: the function returns the value
NoCall(env, toolResult) == Outcome(env.tasks, <<>>, TRUE, toolResult)

\* a dispatcher that completes whatever single task the resolver returns,
\* the 'medium' and 'low' matches included
CompleteByNameAnyMatch(matchResult, env) ==
  (IF matchResult.task # Null
     THEN CompleteById(env, matchResult.task.id, "Completed")
     ELSE NoCall(env, NullResult))
    @@ [matchResult |-> matchResult]

\* lines 259-268: the task found by name is completed when the match is
\* exact or high; otherwise control reaches the break and the final return null
CompleteByName(matchResult, env) ==
  (IF matchResult.confidence = "exact" \/ matchResult.confidence = "high"
     THEN CompleteById(env, matchResult.task.id, "Completed")
     ELSE NoCall(env, NullResult))
    @@ [matchResult |-> matchResult]

\* a dispatcher that reads params.taskNumber as the 0-based index
CompleteTaskIntentZeroBased(params, sched, env) ==
  IF Truthy(params, "taskId") THEN CompleteById(env, params.taskId, "Completed")
  ELSE IF Truthy(params, "taskName")
    THEN CompleteByName(findTaskByName(params.taskName, sched), env)
  ELSE IF TruthyNumber(params)
    THEN LET taskNumber == params.taskNumber
             allTasks == SelectSeq(AllTasksOf(sched), LAMBDA t : ~t.completed)
         IN  IF taskNumber >= 0 /\ taskNumber < Len(allTasks)
               THEN CompleteById(env, allTasks[taskNumber + 1].id,
                                 "Completed (selected by number)")
               ELSE NoCall(env, NullResult)
  ELSE NoCall(env, NullResult)

\* case 'complete_task', lines 246-286
CompleteTaskIntent(params, sched, env) ==
  IF Truthy(params, "taskId") THEN CompleteById(env, params.taskId, "Completed")
  ELSE IF Truthy(params, "taskName")
    THEN CompleteByName(findTaskByName(params.taskName, sched), env)
  ELSE IF TruthyNumber(params)
    THEN LET taskNumber == params.taskNumber - 1
             allTasks == SelectSeq(AllTasksOf(sched), LAMBDA t : ~t.completed)
         IN  IF taskNumber >= 0 /\ taskNumber < Len(allTasks)
               THEN CompleteById(env, allTasks[taskNumber + 1].id,
                                 "Completed (selected by number)")
               ELSE NoCall(env, NullResult)
  ELSE NoCall(env, NullResult)

\* a loop that a failed archive_task call ends: the tasks after it are not
\* tried
RECURSIVE ArchiveLoopStopsAtFailure(_, _, _)
ArchiveLoopStopsAtFailure(env, completedTasks, acc) ==
  IF completedTasks = <<>> THEN acc
  ELSE LET args == [taskId |-> completedTasks[1].id]
           r == callTool([env EXCEPT !.tasks = acc.tasks], "archive_task", args)
       IN  IF r.ok
             THEN ArchiveLoopStopsAtFailure(
                    env, Tail(completedTasks),
                    [tasks |-> r.tasks,
                     calls |-> Append(acc.calls, [name |-> "archive_task", args |-> args]),
                     archivedCount |-> acc.archivedCount + 1,
                     errors |-> acc.errors])
             ELSE [tasks |-> r.tasks,
                   calls |-> Append(acc.calls, [name |-> "archive_task", args |-> args]),
                   archivedCount |-> acc.archivedCount,
                   errors |-> acc.errors + 1]

\* the loop of case 'archive_completed': one archive_task call per task,
\* a failed call is collected and the loop goes on
RECURSIVE ArchiveLoop(_, _, _)
ArchiveLoop(env, completedTasks, acc) ==
  IF completedTasks = <<>> THEN acc
  ELSE LET args == [taskId |-> completedTasks[1].id]
           r == callTool([env EXCEPT !.tasks = acc.tasks], "archive_task", args)
       IN  ArchiveLoop(env, Tail(completedTasks),
                       [tasks |-> r.tasks,
                        calls |-> Append(acc.calls, [name |-> "archive_task", args |-> args]),
                        archivedCount |-> acc.archivedCount + (IF r.ok THEN 1 ELSE 0),
                        errors |-> acc.errors + (IF r.ok THEN 0 ELSE 1)])

\* case 'archive_completed', lines 298-332
ArchiveCompletedIntent(sched, env) ==
  LET completedTasks ==
        SelectSeq(AllTasksOf(sched), LAMBDA t : t.completed /\ ~IsArchived(t))
      done == ArchiveLoop(env, completedTasks,
                          [tasks |-> env.tasks, calls |-> <<>>,
                           archivedCount |-> 0, errors |-> 0])
  IN  IF completedTasks = <<>>
        THEN NoCall(env, Message("No completed tasks to archive"))
        ELSE Outcome(done.tasks, done.calls, TRUE,
                     [type |-> "message", text |-> "Successfully archived",
                      archivedCount |-> done.archivedCount, errors |-> done.errors])

\* the switch on the intent, lines 232-394; params is read without a check,
\* so a case that reads a property of a missing params throws a TypeError
DispatchIntent(intentResult, sched, env) ==
  LET intent == IF HasIntent(intentResult) THEN intentResult.props.intent ELSE "undefined"
      hasParams == HasParams(intentResult)
      params == intentResult.props.params
  IN  CASE intent = "add_task" ->
             \* params.taskText is read inside the try block
             IF ~hasParams THEN NoCall(env, Message("Failed to add task"))
             ELSE LET args == IF Truthy(params, "taskText")
                                THEN [text |-> params.taskText] ELSE NoFields
                      r == IF Truthy(params, "taskText")
                             THEN callTool(env, "smart_add_task", args)
                             ELSE Threw(env.tasks, "text is undefined")
                  IN  Outcome(r.tasks, <<[name |-> "smart_add_task", args |-> args]>>, TRUE,
                              IF r.ok THEN Message("Added")
                                      ELSE Message("Failed to add task"))
        [] intent = "complete_task" ->
             \* params.taskId is read outside any try block
             IF ~hasParams THEN NoCall(env, Rejected)
             ELSE CompleteTaskIntent(params, sched, env)
        [] intent = "plan_day" ->
             LET r == callTool(env, "plan_day", NoFields)
             IN  Outcome(r.tasks, <<[name |-> "plan_day", args |-> NoFields]>>, TRUE,
                         IF r.ok THEN Message("Planned") ELSE Message("Failed to plan day"))
        [] intent = "archive_completed" -> ArchiveCompletedIntent(sched, env)
        [] intent = "list_tasks" -> NoCall(env, Message("Your Current Tasks"))
        [] intent = "help" -> NoCall(env, Message("Assistant Commands"))
        [] OTHER -> NoCall(env, NullResult)

\* lines 226-394: the classifier is asked and its answer dispatched on
AfterClassify(intentResult, sched, env) ==
  (IF IsFalsy(intentResult) THEN NoCall(env, NullResult)
                            ELSE DispatchIntent(intentResult, sched, env))
    @@ [intentResult |-> intentResult]

\* lines 180-394: what follows parseTaskCommand; the command is recorded with
\* the day on which parseDayTimeSpec read the clock
AfterParse(commandResult, sched, response, env) ==
  IF commandResult.success /\ commandResult.command.action = "add-task"
    THEN ExecuteAddTaskCommand(commandResult.command, env)
           @@ [command |-> commandResult.command, today |-> env.today]
    ELSE AfterClassify(analyzeUserIntent(response), sched, env)

\* detectAndExecuteToolActions: userMessage is the utterance, sched the
\* schedule prop, response the classifier's response should it be called
detectAndExecuteToolActions(userMessage, sched, response, env) ==
  AfterParse(parseTaskCommandCached(userMessage, env.today), sched, response, env)

\* the task names the classifier extracts
TaskNames == {<<"c", "a", "l", "l">>, CallMom, <<"m", "o", "m">>, <<"m", "o", "m", " ", "d", "a", "d">>, <<"w", "a", "l", "k">>}

\* an id that no task has
UnknownId == <<"0">>

\* the sign of the local zone's offset from UTC
TimeZones == {-1, 0, 1}

\* the task numbers the classifier extracts: from a negative one to one more
\* than the tasks there can be
TaskNumbers == -1..(MaxTasks + 1)

\* the params bags the classifier returns with an intent
ParamsBags(taskIds) ==
  {NoFields}
    \cup {[taskText |-> t] : t \in {CallDad}}
    \cup {[taskId |-> i] : i \in taskIds}
    \cup {[taskName |-> n] : n \in TaskNames}
    \cup {[taskNumber |-> n] : n \in TaskNumbers}

Intents ==
  {"add_task", "complete_task", "plan_day", "archive_completed", "list_tasks",
   "help", "chat"}

\* the classifier's responses: a failure, a value that is not an object, an
\* intent without params, an intent with a params bag
ClassifierResponses(taskIds) ==
  {[kind |-> "http_error"], [kind |-> "throws"],
   [kind |-> "json", value |-> JsonNull], [kind |-> "json", value |-> JsonNumber],
   [kind |-> "json", value |-> JsonObject(NoFields)]}
    \cup {[kind |-> "json", value |-> JsonObject([intent |-> i])] : i \in Intents}
    \cup {[kind |-> "json", value |-> JsonObject([intent |-> i, params |-> NoFields])] :
            i \in Intents}
    \cup {[kind |-> "json", value |-> JsonObject([intent |-> i, params |-> p])] :
            i \in {"add_task", "complete_task"}, p \in ParamsBags(taskIds)}

(***************************************************************************)
(* The state.                                                              *)
(***************************************************************************)
VARIABLES
  isVercel,         \* process.env.VERCEL === '1': the API route serves tools itself
  plan,             \* plan.tasks of the plan file
  now,              \* Date.now() on the server
  schedule,         \* the chat panel's schedule prop: the last schedule fetched
  staleness,        \* tool calls of other clients since it was fetched
  loading,          \* the chat panel's loading state
  pc,               \* where handleSendMessage is: idle, detect, respond, finally
  messageToSend,    \* the utterance being processed
  outcome,          \* what detectAndExecuteToolActions did for it
  reply,            \* the assistant message appended for it
  ignored,          \* a handleSendMessage call returned at once meanwhile
  currentAction,    \* the status line the page shows
  mcpClient,        \* the API route's module variable mcpClient (line 18)
  clients,          \* the Client objects created so far, each with the state
                    \* of its connect() call
  requests,         \* the API requests in flight that need the MCP client
  mcpLogs,          \* the API route's module variable mcpLogs (line 19)
  logged,           \* the number of logMCPInteraction calls so far
  qualifier,        \* a day/time qualifier given to parseDayTimeSpec
  parsed,           \* what parseDayTimeSpec returned for it, and on which day
  calls             \* tool calls between their readPlan and their writePlan

vars == <<isVercel, plan, now, schedule, staleness, loading, pc,
          messageToSend, outcome, reply, ignored, currentAction,
          mcpClient, clients, requests, mcpLogs, logged, qualifier, parsed,
          calls>>

\* the module variables of the API route, and the requests that use them
api == <<mcpClient, clients, requests, mcpLogs, logged>>

\* the command parser applied on its own
parser == <<qualifier, parsed>>

config == <<isVercel, api, parser, calls>>

chat == <<schedule, staleness, loading, pc, messageToSend, outcome, reply, ignored,
          currentAction>>

\* no utterance is being processed
NoOutcome == NoFields

NoMessage == <<>>

NoSchedule == ScheduleResource(<<>>)

\* setCurrentAction(''), and the status lines: one of those the dispatcher
\* sets (lines 157-307; which one is not modelled) and the one of line 427
NoAction == ""

DispatcherAction == "Calling tool or analyzing intent"

PromptAction == "Calling prompt: custom_assistant"

\* line 18: no client yet
NoClient == 0

\* the requests that can be in flight at once
MaxRequests == 3

Requests == 1..MaxRequests

NoRequest == [pc |-> "none"]

\* lines 18-19: the API route's module is loaded
ApiInit ==
  /\ mcpClient = NoClient
  /\ clients = <<>>
  /\ requests = [r \in Requests |-> NoRequest]
  /\ mcpLogs = <<>>
  /\ logged = 0

NoQualifier == [phrase |-> <<>>, day |-> <<>>, dayFirst |-> TRUE]

NotParsed == NoFields

\* the command parser is not applied on its own
ParserIdle ==
  /\ qualifier = NoQualifier
  /\ parsed = NotParsed

\* the two clients whose tool calls overlap
Callers == {"a", "b"}

NotCalling == [pc |-> "none"]

\* no tool call is between its read and its write
NoCalls == calls = [c \in Callers |-> NotCalling]

Init ==
  /\ isVercel \in BOOLEAN
  /\ plan = <<>>
  /\ now = 1
  /\ schedule = NoSchedule
  /\ staleness = 0
  /\ loading = FALSE
  /\ pc = "idle"
  /\ messageToSend = NoMessage
  /\ outcome = NoOutcome
  /\ reply = "none"
  /\ ignored = FALSE
  /\ currentAction = NoAction
  /\ ApiInit
  /\ ParserIdle
  /\ NoCalls

\* the ids of the tasks in the file, and one that is not there
KnownIds == {plan[i].id : i \in 1..Len(plan)}

TaskIds == KnownIds \cup {UnknownId}

(***************************************************************************)
(* The server's clock advances.                                            *)
(***************************************************************************)
Tick ==
  /\ now < MaxClock
  /\ now' = now + 1
  /\ UNCHANGED <<config, plan, chat>>

(***************************************************************************)
(* Tool calls of any client (the day board, another MCP client), served by *)
(* the API route's POST handler.  A call that throws writes nothing.  While *)
(* the chat panel holds a schedule it has not yet dispatched on, at most    *)
(* MaxStale such calls are taken; once it has dispatched it neither reads   *)
(* nor writes the plan file again, so later calls are taken when it is idle.*)
(***************************************************************************)
ToolRequest(name, args) ==
  /\ pc = "idle" \/ (pc = "detect" /\ staleness < MaxStale)
  /\ staleness' = IF pc = "idle" THEN 0 ELSE staleness + 1
  /\ plan' = HandleToolRequest(isVercel, plan, name, args, now).tasks
  /\ UNCHANGED <<config, now, schedule, loading, pc, messageToSend, outcome, reply,
                 ignored, currentAction>>

\* the room kept in the plan file (of at most MaxTasks tasks) for the task
\* that an accepted add-task command will add
AddsTask(userMessage) == parseTaskCommandCached(userMessage, FirstToday).success

Reserved == IF pc = "detect" /\ AddsTask(messageToSend) THEN 1 ELSE 0

AddTask ==
  \E text \in TaskTexts, slot \in SlotArgs :
    /\ Len(plan) + Reserved < MaxTasks
    /\ ToolRequest("add_task",
                   IF slot = "undefined" THEN [text |-> text]
                                         ELSE [text |-> text, timeSlot |-> slot])

SmartAddTask ==
  \E text \in TaskTexts :
    /\ Len(plan) + Reserved < MaxTasks
    /\ ToolRequest("smart_add_task", [text |-> text])

CompleteTask ==
  \E taskId \in TaskIds : ToolRequest("complete_task", [taskId |-> taskId])

PlanDay == \E name \in {"plan_day"} : ToolRequest(name, NoFields)

ArchiveTask ==
  \E taskId \in TaskIds : ToolRequest("archive_task", [taskId |-> taskId])

(***************************************************************************)
(* handleSendMessage, lines 397-484.                                       *)
(***************************************************************************)
\* a guard that does not look at loading
AcceptsWhileLoading(currentInput, isLoading) == trim(currentInput) # <<>>

\* line 398: the call goes on unless the input is blank or an utterance is
\* being processed
Accepts(currentInput, isLoading) == ~(trim(currentInput) = <<>> \/ isLoading)

\* lines 398-410: the utterance is accepted
HandleSendMessage ==
  \E currentInput \in UserMessages :
    /\ Accepts(currentInput, loading)
    /\ AddsTask(trim(currentInput)) => Len(plan) < MaxTasks
    /\ messageToSend' = trim(currentInput)
    /\ loading' = TRUE
    /\ schedule' = ScheduleResource(plan)
    /\ pc' = "detect"
    /\ UNCHANGED <<config, plan, now, staleness, outcome, reply, ignored, currentAction>>

\* line 398: a call made while an utterance is being processed returns at
\* once.  It changes nothing the program holds; that it happened is recorded
\* in ignored, in the specification of the panel (PanelSpec)
IgnoreSendMessage ==
  /\ loading
  /\ \E currentInput \in UserMessages : ~Accepts(currentInput, loading)
  /\ ignored' = TRUE
  /\ UNCHANGED <<config, plan, now, schedule, staleness, loading, pc, messageToSend,
                 outcome, reply, currentAction>>

\* the inputs detectAndExecuteToolActions reads for the utterance: the day,
\* the zone and the clock's date when parseTaskCommand succeeds, else the
\* classifier's response; an input that is not read is not enumerated
ReadsClock(userMessage) == AddsTask(userMessage)

DetectInputs(userMessage) ==
  IF ReadsClock(userMessage)
    THEN UNION {{[today |-> t, tz |-> z, isoNow |-> n, onNavigateToDay |-> nav,
                  response |-> [kind |-> "throws"]] :
                   n \in ISODatesOfNow(t, z), nav \in BOOLEAN} :
                 t \in Todays, z \in TimeZones}
    ELSE {[today |-> FirstToday, tz |-> 0, isoNow |-> FirstToday, onNavigateToDay |-> TRUE,
           response |-> r] : r \in ClassifierResponses(TaskIds)}

\* line 414: detectAndExecuteToolActions(messageToSend) runs
DetectAndExecute ==
  /\ pc = "detect"
  /\ \E in \in DetectInputs(messageToSend) :
       \E done \in {detectAndExecuteToolActions(
                       messageToSend, schedule, in.response,
                       [vercel |-> isVercel, tasks |-> plan, now |-> now,
                        today |-> in.today, tz |-> in.tz, isoNow |-> in.isoNow,
                        onNavigateToDay |-> in.onNavigateToDay])} :
         /\ Len(done.tasks) <= MaxTasks
         /\ outcome' = [f \in DOMAIN done \ {"tasks"} |-> done[f]]
         /\ plan' = done.tasks
         /\ pc' = "respond"
         /\ staleness' = 0
         /\ currentAction' = DispatcherAction
         /\ UNCHANGED <<config, now, schedule, loading, messageToSend, reply, ignored>>

\* a panel that calls the custom_assistant prompt whatever the dispatcher
\* returned
AssistantMessageAlwaysPrompted(toolResult, promptOk) ==
  IF promptOk THEN "prompt" ELSE "prompt error"

\* the assistant message appended, lines 416-479: the dispatcher's result;
\* the error it threw; or, when it returned null, what the call of the
\* custom_assistant prompt gave: its response, or the error of the call
AssistantMessage(toolResult, promptOk) ==
  CASE toolResult.type = "message" -> "tool"
    [] toolResult.type = "throw" -> "error"
    [] OTHER -> IF promptOk THEN "prompt" ELSE "prompt error"

\* lines 416-479: the result is shown, or the custom_assistant prompt is
\* called when there is none; an exception becomes an error message.  The
\* dispatcher's result is not read after this.
Respond ==
  /\ pc = "respond"
  /\ \E promptOk \in BOOLEAN :
       reply' = AssistantMessage(outcome.toolResult, promptOk)
  /\ currentAction' = IF outcome.toolResult.type = "null" THEN PromptAction
                                                          ELSE currentAction
  /\ outcome' = NoOutcome
  /\ schedule' = NoSchedule
  /\ pc' = "finally"
  /\ UNCHANGED <<config, plan, now, staleness, loading, messageToSend, ignored>>

\* a finally block that leaves loading and the status line as they are
FinallyWithoutReset ==
  /\ pc = "finally"
  /\ pc' = "idle"
  /\ messageToSend' = NoMessage
  /\ reply' = "none"
  /\ ignored' = FALSE
  /\ UNCHANGED <<config, plan, now, schedule, staleness, outcome, loading, currentAction>>

\* lines 480-483
Finally ==
  /\ pc = "finally"
  /\ loading' = FALSE
  /\ pc' = "idle"
  /\ messageToSend' = NoMessage
  /\ reply' = "none"
  /\ ignored' = FALSE
  /\ currentAction' = NoAction
  /\ UNCHANGED <<config, plan, now, schedule, staleness, outcome>>

Next ==
  \/ Tick
  \/ AddTask
  \/ SmartAddTask
  \/ CompleteTask
  \/ PlanDay
  \/ ArchiveTask
  \/ HandleSendMessage
  \/ DetectAndExecute
  \/ Respond
  \/ Finally

Spec == Init /\ [][Next]_vars

(***************************************************************************)
(* The same program when every awaited call of handleSendMessage returns   *)
(* or fails: the dispatcher (line 414), the prompt call and the streaming  *)
(* (lines 416-479) and the finally block (lines 480-483) are each taken    *)
(* once they can be.  Nothing is assumed of the user or of other clients,   *)
(* who add and complete tasks meanwhile; the clock stands still.            *)
(***************************************************************************)
(***************************************************************************)
(* getMcpClient, lines 50-90, called by the requests of local development  *)
(* (lines 329 and 359-363).  Between the test of mcpClient (line 51) and   *)
(* its assignment (line 78) nothing is awaited, so the two are one step;   *)
(* connect() is awaited (line 88) and other requests run meanwhile.        *)
(***************************************************************************)
\* lines 51-88, up to the await
GetMcpClient(r) ==
  /\ ~isVercel
  /\ requests[r].pc = "none"
  /\ IF mcpClient # NoClient
       THEN /\ requests' = [requests EXCEPT ![r] = [pc |-> "obtained", client |-> mcpClient]]
            /\ UNCHANGED <<mcpClient, clients>>
       ELSE /\ clients' = Append(clients, "connecting")
            /\ mcpClient' = Len(clients) + 1
            /\ requests' = [requests EXCEPT
                              ![r] = [pc |-> "connecting", client |-> Len(clients) + 1]]
  /\ UNCHANGED <<isVercel, plan, now, chat, calls, parser, mcpLogs, logged>>

\* lines 88-89: connect() resolves and the client is returned, or it rejects
\* and getMcpClient throws; mcpClient stays assigned either way
ConnectCompletes(r) ==
  /\ requests[r].pc = "connecting"
  /\ \E ok \in BOOLEAN :
       /\ clients' = [clients EXCEPT ![requests[r].client] =
                                        IF ok THEN "connected" ELSE "failed"]
       /\ requests' = [requests EXCEPT ![r].pc = IF ok THEN "obtained" ELSE "threw"]
  /\ UNCHANGED <<isVercel, plan, now, chat, calls, parser, mcpClient, mcpLogs, logged>>

\* the handler sends its response (with the client, or the 500 of lines
\* 887-902)
EndRequest(r) ==
  /\ requests[r].pc \in {"obtained", "threw"}
  /\ requests' = [requests EXCEPT ![r] = NoRequest]
  /\ UNCHANGED <<isVercel, plan, now, chat, calls, parser, mcpClient, clients, mcpLogs, logged>>

(***************************************************************************)
(* logMCPInteraction, lines 35-46.  It awaits nothing, so a call is one    *)
(* step.  An entry is modelled by the number of the call that made it, in  *)
(* place of its id and timestamp.                                          *)
(***************************************************************************)
\* line 43: the capacity of the log
MaxLogEntries == 100

\* the calls modelled
MaxLogged == 102

\* array.slice(-n) of an array longer than n, and array.slice(0, n)
sliceLast(array, n) == SubSeq(array, Len(array) - n + 1, Len(array))

sliceFirst(array, n) == SubSeq(array, 1, n)

\* a log that keeps its first entries
logMCPInteractionKeepsFirst(logs, logEntry) ==
  LET pushed == Append(logs, logEntry)
  IN IF Len(pushed) > MaxLogEntries THEN sliceFirst(pushed, MaxLogEntries) ELSE pushed

\* lines 41-45
logMCPInteraction(logs, logEntry) ==
  LET pushed == Append(logs, logEntry)
  IN IF Len(pushed) > MaxLogEntries THEN sliceLast(pushed, MaxLogEntries) ELSE pushed

\* a handler logs a request, a response or an error
LogMCPInteraction ==
  /\ logged < MaxLogged
  /\ logged' = logged + 1
  /\ mcpLogs' = logMCPInteraction(mcpLogs, [call |-> logged + 1])
  /\ UNCHANGED <<isVercel, plan, now, chat, calls, parser, mcpClient, clients, requests>>

ApiNext ==
  \/ \E r \in Requests : GetMcpClient(r)
  \/ \E r \in Requests : ConnectCompletes(r)
  \/ \E r \in Requests : EndRequest(r)
  \/ LogMCPInteraction

ApiSpec == Init /\ [][ApiNext]_vars

(***************************************************************************)
(* parseDayTimeSpec applied to qualifiers made of a phrase for the time of *)
(* day and, before or after it, one of the day names of dayPatterns or     *)
(* none.                                                                   *)
(***************************************************************************)
SlotPhrases ==
  { <<>>,
    <<"m", "o", "r", "n", "i", "n", "g">>,
    <<"a", "f", "t", "e", "r", "n", "o", "o", "n">>,
    <<"e", "v", "e", "n", "i", "n", "g">>,
    <<"a", "m">>,
    <<"p", "m">>,
    <<"n", "i", "g", "h", "t">>,
    <<"8", "a", "m">>,
    <<"t", "o", "n", "i", "g", "h", "t", " ", "8", "p", "m">>,
    <<"M", "o", "r", "n", "i", "n", "g">>,
    <<"9", "p", "m", " ", "e", "v", "e", "n", "i", "n", "g">>,
    <<"n", "o", "o", "n">> }

DayTokens == {dayPatterns[i].key : i \in 1..Len(dayPatterns)} \cup {<<>>}

Qualifiers == [phrase : SlotPhrases, day : DayTokens, dayFirst : BOOLEAN]

\* the text of a qualifier
QualifierText(q) ==
  IF q.day = <<>> THEN q.phrase
  ELSE IF q.dayFirst THEN q.day \o <<" ">> \o q.phrase
  ELSE q.phrase \o <<" ">> \o q.day

ParserInit ==
  /\ isVercel = FALSE
  /\ plan = <<>>
  /\ now = 1
  /\ schedule = NoSchedule
  /\ staleness = 0
  /\ loading = FALSE
  /\ pc = "idle"
  /\ messageToSend = NoMessage
  /\ outcome = NoOutcome
  /\ reply = "none"
  /\ ignored = FALSE
  /\ currentAction = NoAction
  /\ ApiInit
  /\ qualifier \in Qualifiers
  /\ parsed = NotParsed
  /\ NoCalls

\* part_006 lines 54-133, on one of the days
ParseDayTimeSpec ==
  /\ parsed = NotParsed
  /\ \E today \in Todays :
       parsed' = [today |-> today,
                  result |-> parseDayTimeSpec(QualifierText(qualifier), today)]
  /\ UNCHANGED <<isVercel, plan, now, chat, calls, api, qualifier>>

ParserNext == ParseDayTimeSpec

ParserSpec == ParserInit /\ [][ParserNext]_vars

LiveNext ==
  \/ AddTask
  \/ CompleteTask
  \/ HandleSendMessage
  \/ DetectAndExecute
  \/ Respond
  \/ Finally

LiveSpec ==
  /\ Init
  /\ [][LiveNext]_vars
  /\ WF_vars(DetectAndExecute) /\ WF_vars(Respond) /\ WF_vars(Finally)

(***************************************************************************)
(* The tool handlers on a plan file that holds tasks when the servers      *)
(* start (the file outlives them).  The tasks were added one per           *)
(* millisecond, some were completed and some given the evening slot; the   *)
(* chat panel is not used.                                                  *)
(***************************************************************************)
LoadedSlots == {"undefined", "evening"}

\* the plan files of n tasks
LoadedPlans(n) ==
  {[i \in 1..n |->
      [id |-> toString(i), text |-> CallMom, completed |-> f[i].completed]
        @@ (IF f[i].timeSlot = "undefined" THEN NoFields
                                           ELSE [timeSlot |-> f[i].timeSlot])] :
     f \in [1..n -> [completed : BOOLEAN, timeSlot : LoadedSlots]]}

StoreInit ==
  /\ isVercel \in BOOLEAN
  /\ \E n \in 0..MaxLoaded :
       /\ plan \in LoadedPlans(n)
       /\ now = IF n = 0 THEN 1 ELSE n
  /\ schedule = NoSchedule
  /\ staleness = 0
  /\ loading = FALSE
  /\ pc = "idle"
  /\ messageToSend = NoMessage
  /\ outcome = NoOutcome
  /\ reply = "none"
  /\ ignored = FALSE
  /\ currentAction = NoAction
  /\ ApiInit
  /\ ParserIdle
  /\ NoCalls

\* smart_add_task with any of the texts for categorizeTask
SmartAddTaskWithText ==
  \E text \in CategorizeTexts :
    /\ Len(plan) < MaxTasks
    /\ ToolRequest("smart_add_task", [text |-> text])

StoreNext ==
  \/ Tick
  \/ AddTask
  \/ SmartAddTask
  \/ SmartAddTaskWithText
  \/ CompleteTask
  \/ PlanDay
  \/ ArchiveTask

StoreSpec == StoreInit /\ [][StoreNext]_vars

(***************************************************************************)
(* The chat panel on a plan file that holds tasks when the servers start,  *)
(* with texts of which one begins with and one contains another; no other  *)
(* client calls a tool, and handleSendMessage is also called while an      *)
(* utterance is being processed.                                           *)
(***************************************************************************)
CallMomToday == <<"C", "a", "l", "l", " ", "m", "o", "m", " ", "t", "o", "d", "a", "y">>

DoCallMom == <<"D", "o", " ", "c", "a", "l", "l", " ", "m", "o", "m">>

PanelTexts == {CallMom, CallMomToday, DoCallMom}

\* the plan files of n tasks
PanelPlans(n) ==
  {[i \in 1..n |->
      [id |-> toString(i), text |-> f[i].text, completed |-> f[i].completed]
        @@ (IF f[i].timeSlot = "undefined" THEN NoFields
                                           ELSE [timeSlot |-> f[i].timeSlot])] :
     f \in [1..n -> [text : PanelTexts, completed : BOOLEAN, timeSlot : SlotArgs]]}

PanelInit ==
  /\ isVercel \in BOOLEAN
  /\ \E n \in 0..MaxTasks :
       /\ plan \in PanelPlans(n)
       /\ now = IF n = 0 THEN 1 ELSE n
  /\ schedule = NoSchedule
  /\ staleness = 0
  /\ loading = FALSE
  /\ pc = "idle"
  /\ messageToSend = NoMessage
  /\ outcome = NoOutcome
  /\ reply = "none"
  /\ ignored = FALSE
  /\ currentAction = NoAction
  /\ ApiInit
  /\ ParserIdle
  /\ NoCalls

PanelNext ==
  \/ HandleSendMessage
  \/ IgnoreSendMessage
  \/ DetectAndExecute
  \/ Respond
  \/ Finally

PanelSpec == PanelInit /\ [][PanelNext]_vars

(***************************************************************************)
(* Two tool calls that overlap.  A handler awaits readPlan, changes the    *)
(* plan it has read and awaits writePlan (API route lines 778-848, stdio   *)
(* server lines 636-713); nothing keeps another call from reading or       *)
(* writing the file between the two.  A call reads the file in one step    *)
(* and, in a later step, writes what it made of the plan it read; a call    *)
(* that throws writes nothing.  The plan file holds no task or one.        *)
(***************************************************************************)
\* the calls a client makes
ToolCalls ==
  {[name |-> "add_task", args |-> [text |-> text]] : text \in TaskTexts}
    \cup {[name |-> "complete_task", args |-> [taskId |-> toString(1)]]}

RaceInit ==
  /\ isVercel \in BOOLEAN
  /\ \E n \in 0..1 : plan \in LoadedPlans(n)
  /\ now = 1
  /\ schedule = NoSchedule
  /\ staleness = 0
  /\ loading = FALSE
  /\ pc = "idle"
  /\ messageToSend = NoMessage
  /\ outcome = NoOutcome
  /\ reply = "none"
  /\ ignored = FALSE
  /\ currentAction = NoAction
  /\ ApiInit
  /\ ParserIdle
  /\ NoCalls

\* the add_task calls that have read the plan and not yet written it
AddsInFlight ==
  Cardinality({c \in Callers : calls[c].pc = "read" /\ calls[c].call.name = "add_task"})

\* readPlan of a call returns the plan file
ReadPlan(c) ==
  /\ calls[c].pc = "none"
  /\ \E call \in ToolCalls :
       /\ call.name = "add_task" => Len(plan) + AddsInFlight < MaxTasks
       /\ calls' = [calls EXCEPT ![c] = [pc |-> "read", call |-> call, tasks |-> plan]]
  /\ UNCHANGED <<isVercel, plan, now, chat, api, parser>>

\* the handler changes the plan it read and writePlan writes it
WritePlan(c) ==
  /\ calls[c].pc = "read"
  /\ \E r \in {HandleToolRequest(isVercel, calls[c].tasks, calls[c].call.name,
                                  calls[c].call.args, now)} :
       /\ plan' = IF r.ok THEN r.tasks ELSE plan
       /\ calls' = [calls EXCEPT ![c] = [pc |-> "done", call |-> calls[c].call,
                                         ok |-> r.ok, wrote |-> r.tasks]]
  /\ UNCHANGED <<isVercel, now, chat, api, parser>>

\* both calls have been answered
CallsAnswered ==
  /\ \A c \in Callers : calls[c].pc = "done"
  /\ calls' = [c \in Callers |-> NotCalling]
  /\ UNCHANGED <<isVercel, plan, now, chat, api, parser>>

RaceNext ==
  \/ Tick
  \/ \E c \in Callers : ReadPlan(c)
  \/ \E c \in Callers : WritePlan(c)
  \/ CallsAnswered

RaceSpec == RaceInit /\ [][RaceNext]_vars

(***************************************************************************)
(* Properties.                                                             *)
(***************************************************************************)
\* the classifier answered with a complete_task intent whose params carry a
\* taskName and no taskId
NamesTask(o) ==
  /\ "intentResult" \in DOMAIN o
  /\ HasIntent(o.intentResult)
  /\ o.intentResult.props.intent = "complete_task"
  /\ HasParams(o.intentResult)
  /\ Truthy(o.intentResult.props.params, "taskName")
  /\ ~Truthy(o.intentResult.props.params, "taskId")

\* C1: every task of the store with archived = true has completed = true
ArchivedImpliesCompleted ==
  \A i \in 1..Len(plan) : IsArchived(plan[i]) => plan[i].completed

Call == <<"c", "a", "l", "l">>

\* the non-completed tasks of a schedule, in iteration order
Pending(sched) == SelectSeq(AllTasksOf(sched), LAMBDA t : ~t.completed)

\* exactly two non-completed tasks, with the texts 'Call mom' and 'Call dad'
TwoCallTasks(sched) ==
  /\ Len(Pending(sched)) = 2
  /\ {Pending(sched)[1].text, Pending(sched)[2].text} = {CallMom, CallDad}

\* C2 as stated: with exactly the two non-completed tasks 'Call mom' and
\* 'Call dad', findTaskByName('call') is ambiguous, with no task and with
\* both tasks among the matches
CallIsAmbiguous ==
  TwoCallTasks(schedule) =>
    LET r == findTaskByName(Call, schedule)
    IN  /\ r.confidence = "ambiguous"
        /\ r.task = Null
        /\ "matches" \in DOMAIN r
        /\ \A i \in 1..2 : \E j \in 1..Len(r.matches) : r.matches[j] = Pending(schedule)[i]

\* C2 amended: with exactly the two non-completed tasks 'Call mom' and
\* 'Call dad', findTaskByName('call') has confidence 'high' and picks the
\* first of the two in iteration order; it lists no matches
CallIsHighFirst ==
  TwoCallTasks(schedule) =>
    LET r == findTaskByName(Call, schedule)
    IN  /\ r.confidence = "high"
        /\ r.task = Pending(schedule)[1]
        /\ "matches" \notin DOMAIN r

\* the dispatcher has resolved 'call' against the two tasks, 'Call mom' first
CallResolved ==
  /\ pc = "respond"
  /\ TwoCallTasks(schedule)
  /\ Pending(schedule)[1].text = CallMom
  /\ NamesTask(outcome)
  /\ outcome.intentResult.props.params.taskName = Call
  /\ outcome.matchResult.confidence = "high"
  /\ outcome.matchResult.task.text = CallMom

\* the Command Parser succeeded with an add-task command that carries a date
\* or a time slot (whether it does is the same on every day)
QualifiedAddTask(userMessage) ==
  LET r == parseTaskCommandCached(userMessage, FirstToday)
  IN  r.success /\ ("date" \in DOMAIN r.command \/ "timeSlot" \in DOMAIN r.command)

\* C3 as stated: the classifier is called exactly when the Command Parser
\* did not succeed with a day/time-qualified add-task; when it did, the task
\* is added directly
ClassifierIffNotQualified ==
  pc = "respond" =>
    /\ outcome.classified <=> ~QualifiedAddTask(messageToSend)
    /\ QualifiedAddTask(messageToSend) =>
         /\ Len(outcome.calls) = 1
         /\ outcome.calls[1].name \in {"add_task", "smart_add_task"}

\* C4: for a complete_task intent with a taskName and no taskId, the
\* dispatcher calls complete_task exactly when findTaskByName on the schedule
\* it holds is 'exact' or 'high', once and for the id of the task returned,
\* and the store changes as that call changes it; for 'medium', 'low',
\* 'ambiguous' and 'none' it calls no tool and the store is unchanged
NamedCompletionGated ==
  [][(pc = "detect" /\ pc' = "respond" /\ NamesTask(outcome')) =>
       LET m == findTaskByName(outcome'.intentResult.props.params.taskName, schedule)
           args == [taskId |-> m.task.id]
       IN  IF m.confidence \in {"exact", "high"}
             THEN /\ outcome'.calls = <<[name |-> "complete_task", args |-> args]>>
                  /\ plan' = HandleToolRequest(isVercel, plan, "complete_task", args, now).tasks
             ELSE /\ m.confidence \in {"medium", "low", "ambiguous", "none"}
                  /\ outcome'.calls = <<>>
                  /\ plan' = plan]_vars

\* a task named by the classifier was found with high confidence and completed
NamedCompletionExecuted ==
  /\ pc = "respond"
  /\ NamesTask(outcome)
  /\ outcome.matchResult.confidence \in {"exact", "high"}
  /\ Len(outcome.calls) = 1
  /\ outcome.toolResult = Message("Completed")
  /\ \E i \in 1..Len(plan) :
       plan[i].id = outcome.matchResult.task.id /\ plan[i].completed

\* the classifier's call failed, or its value is not an object with the
\* properties intent and params
FailedOrMalformed(v) == ~(HasIntent(v) /\ HasParams(v))

\* C5 as stated: when the classification fails or its value violates the
\* shape {intent, params}, detectAndExecuteToolActions returns null, calls no
\* tool and leaves the store unchanged
MalformedGivesNull ==
  [][(/\ pc = "detect"
      /\ pc' = "respond"
      /\ outcome'.classified
      /\ FailedOrMalformed(outcome'.intentResult)) =>
       /\ outcome'.toolResult = NullResult
       /\ outcome'.calls = <<>>
       /\ plan' = plan]_vars

\* the number of complete_task calls in a row compared
MaxRepeats == 2

\* the store after n complete_task calls for the id on one code path
RECURSIVE CompleteRepeatedly(_, _, _, _)
CompleteRepeatedly(vercel, tasks, taskId, n) ==
  IF n = 0 THEN tasks
  ELSE CompleteRepeatedly(
         vercel,
         HandleToolRequest(vercel, tasks, "complete_task", [taskId |-> taskId], now).tasks,
         taskId, n - 1)

CompletedOf(tasks, taskId) == tasks[FindTaskIndex(tasks, taskId)].completed

\* C6 as stated: from the same store, any number of complete_task calls for
\* the same id leaves the same completed value through the stdio server's
\* handler and through the API route's direct handler
SameCompletionSemantics ==
  \A taskId \in KnownIds, n \in 1..MaxRepeats :
    CompletedOf(CompleteRepeatedly(FALSE, plan, taskId, n), taskId)
      = CompletedOf(CompleteRepeatedly(TRUE, plan, taskId, n), taskId)

\* C7 as stated: the task created for a day-qualified add-task command
\* records the resolved date, and the resolved time slot when there is one
CreatedTaskRecordsDate ==
  (/\ pc = "respond"
   /\ "command" \in DOMAIN outcome
   /\ "date" \in DOMAIN outcome.command
   /\ outcome.toolResult = Message("Added")) =>
    LET t == plan[Len(plan)]
    IN  /\ "date" \in DOMAIN t
        /\ t.date = outcome.command.date
        /\ "timeSlot" \in DOMAIN outcome.command =>
             HasTimeSlot(t) /\ t.timeSlot = outcome.command.timeSlot

\* C8 as stated: the tasks of the store have pairwise distinct ids
IdsDistinct ==
  \A i, j \in 1..Len(plan) : i # j => plan[i].id # plan[j].id

\* C9 as stated: when the task named by a complete_task intent resolves to
\* 'none' or to 'ambiguous', the dispatcher returns a message and not null
UnresolvedNameIsReported ==
  (/\ pc = "respond"
   /\ NamesTask(outcome)
   /\ outcome.matchResult.confidence \in {"none", "ambiguous"}) =>
    outcome.toolResult.type = "message"

CompleteTaskPrefix == <<"c", "o", "m", "p", "l", "e", "t", "e", " ", "t", "a", "s", "k", ":">>

\* C10 as stated: an utterance 'Complete task: <name>' is not turned into an
\* add-task command and leads to no add_task or smart_add_task call
AdvertisedCompletionIsNoAdd ==
  (pc = "respond" /\ startsWith(toLowerCase(messageToSend), CompleteTaskPrefix)) =>
    /\ "command" \notin DOMAIN outcome
    /\ \A i \in 1..Len(outcome.calls) :
         outcome.calls[i].name \notin {"add_task", "smart_add_task"}

\* the classifier answered with the archive_completed intent
ArchivesCompleted(o) ==
  /\ "intentResult" \in DOMAIN o
  /\ HasIntent(o.intentResult)
  /\ o.intentResult.props.intent = "archive_completed"

\* the tasks of the schedule that are completed and not archived, in
\* iteration order
ArchiveItems(sched) ==
  SelectSeq(AllTasksOf(sched), LAMBDA t : t.completed /\ ~IsArchived(t))

\* archive_task for the id fails on the store: no task has the id, or the
\* task that has it is not completed
ArchiveFails(tasks, taskId) ==
  \/ FindTaskIndex(tasks, taskId) = 0
  \/ ~tasks[FindTaskIndex(tasks, taskId)].completed

\* C11: archive_completed calls archive_task once, in order, for every task
\* that is completed and not archived in the schedule it holds; a call that
\* fails does not end the loop: for every item whose call does not fail the
\* task the store finds for the item's id is archived, nothing else is
\* written, and the message reports the number of calls that succeeded and
\* one failure line per call that failed
ArchiveLoopCompletes ==
  [][(pc = "detect" /\ pc' = "respond" /\ ArchivesCompleted(outcome')) =>
       LET items == ArchiveItems(schedule)
           failed == {i \in 1..Len(items) : ArchiveFails(plan, items[i].id)}
           archived == {FindTaskIndex(plan, items[i].id) : i \in (1..Len(items)) \ failed}
       IN  IF items = <<>>
             THEN outcome'.calls = <<>> /\ plan' = plan
             ELSE /\ outcome'.calls =
                       [i \in 1..Len(items) |->
                          [name |-> "archive_task", args |-> [taskId |-> items[i].id]]]
                  /\ outcome'.toolResult.archivedCount = Len(items) - Cardinality(failed)
                  /\ outcome'.toolResult.errors = Cardinality(failed)
                  /\ Len(plan') = Len(plan)
                  /\ \A j \in 1..Len(plan) :
                       IF j \in archived THEN plan'[j] = SetField(plan[j], "archived", TRUE)
                                         ELSE plan'[j] = plan[j]]_vars

\* archive_completed went over two tasks: the call for the first failed, the
\* second was archived all the same, and one failure is reported
ArchiveContinuedAfterFailure ==
  /\ pc = "respond"
  /\ ArchivesCompleted(outcome)
  /\ Len(outcome.calls) = 2
  /\ outcome.toolResult.archivedCount = 1
  /\ outcome.toolResult.errors = 1
  /\ ~IsArchived(plan[FindTaskIndex(plan, outcome.calls[1].args.taskId)])
  /\ IsArchived(plan[FindTaskIndex(plan, outcome.calls[2].args.taskId)])

\* C12: archive_task for an id no task has, or for a task whose completed
\* flag is false, fails with an error and writes nothing, through the stdio
\* server and through the API route's direct handler
FailedArchiveWritesNothing ==
  \A taskId \in TaskIds, vercel \in BOOLEAN :
    ArchiveFails(plan, taskId) =>
      LET r == HandleToolRequest(vercel, plan, "archive_task", [taskId |-> taskId], now)
      IN  ~r.ok /\ r.tasks = plan

\* archive_task was called for a task that is not completed: the call failed
\* and the task is in the store as it was, not archived
ArchiveOfIncompleteFailed ==
  /\ pc = "respond"
  /\ ArchivesCompleted(outcome)
  /\ Len(outcome.calls) = 1
  /\ outcome.toolResult.archivedCount = 0
  /\ outcome.toolResult.errors = 1
  /\ FindTaskIndex(plan, outcome.calls[1].args.taskId) # 0
  /\ ~plan[FindTaskIndex(plan, outcome.calls[1].args.taskId)].completed
  /\ ~IsArchived(plan[FindTaskIndex(plan, outcome.calls[1].args.taskId)])

\* the names of the weekdays, full and abbreviated; the names of the weekday
\* that getDay() numbers w are WeekdayNames[w + 1]
WeekdayNames ==
  << {<<"s", "u", "n", "d", "a", "y">>, <<"s", "u", "n">>},
     {<<"m", "o", "n", "d", "a", "y">>, <<"m", "o", "n">>},
     {<<"t", "u", "e", "s", "d", "a", "y">>, <<"t", "u", "e">>, <<"t", "u", "e", "s">>},
     {<<"w", "e", "d", "n", "e", "s", "d", "a", "y">>, <<"w", "e", "d">>},
     {<<"t", "h", "u", "r", "s", "d", "a", "y">>, <<"t", "h", "u">>, <<"t", "h", "u", "r", "s">>},
     {<<"f", "r", "i", "d", "a", "y">>, <<"f", "r", "i">>},
     {<<"s", "a", "t", "u", "r", "d", "a", "y">>, <<"s", "a", "t">>} >>

\* seven consecutive days: every weekday is the current one once
OneWeek == FirstToday..(FirstToday + 6)

\* the weekday names resolve as C13 says on the day today
ResolvesNextOccurrence(today) ==
  \A w \in 0..6 :
    \A name \in WeekdayNames[w + 1] :
      LET r == parseDayTimeSpec(name, today)
      IN  /\ "date" \in DOMAIN r
          /\ r.date - today \in 1..7
          /\ getDay(r.date) = w
          /\ getDay(today) = w => r.date - today = 7

\* ... on each of seven consecutive days
ResolvesNextOccurrenceAllWeek == \A today \in OneWeek : ResolvesNextOccurrence(today)

\* C13: for every current weekday and every weekday name, full or
\* abbreviated, parseDayTimeSpec resolves the date d days after today with
\* 1 <= d <= 7 and with the named weekday, and the name of today's own
\* weekday gives d = 7; so does the date of every add-task command that
\* names a weekday
NamedWeekdayIsNextOccurrence ==
  /\ ResolvesNextOccurrenceAllWeek
  /\ (/\ pc = "respond"
      /\ "command" \in DOMAIN outcome
      /\ "day" \in DOMAIN outcome.command
      /\ \E w \in 0..6 : outcome.command.day \in WeekdayNames[w + 1]) =>
       /\ outcome.command.date - outcome.today \in 1..7
       /\ outcome.command.day \in WeekdayNames[getDay(outcome.command.date) + 1]
       /\ outcome.command.day \in WeekdayNames[getDay(outcome.today) + 1] =>
            outcome.command.date - outcome.today = 7

\* an add-task command typed on a Tuesday named tuesday: its date is the
\* Tuesday a week later
TodaysWeekdayNamed ==
  /\ pc = "respond"
  /\ "command" \in DOMAIN outcome
  /\ "day" \in DOMAIN outcome.command
  /\ outcome.command.day \in WeekdayNames[Tuesday + 1]
  /\ getDay(outcome.today) = Tuesday
  /\ outcome.command.date = outcome.today + 7

\* C14: plan_day gives the k-th (0-based) of the tasks without a time slot
\* and not completed, in the order of the list, the slot
\* [morning, afternoon, evening][k mod 3]; afterwards no task that is not
\* completed is without a time slot
PlanDayAssignsInRotation ==
  \A vercel \in BOOLEAN :
    LET after == HandleToolRequest(vercel, plan, "plan_day", NoFields, now).tasks
        waiting == {i \in 1..Len(plan) : ~HasTimeSlot(plan[i]) /\ ~plan[i].completed}
    IN  /\ Len(after) = Len(plan)
        /\ \A i \in waiting :
             LET k == Cardinality({j \in waiting : j < i})
             IN  /\ HasTimeSlot(after[i])
                 /\ after[i].timeSlot = <<"morning", "afternoon", "evening">>[(k % 3) + 1]
        /\ \A i \in 1..Len(after) : ~after[i].completed => HasTimeSlot(after[i])

\* plan_day went over four tasks without a slot: the fourth got the first
\* slot again
FourthTaskWraps ==
  /\ Len(plan) = 4
  /\ \A i \in 1..4 : ~plan[i].completed /\ HasTimeSlot(plan[i])
  /\ [i \in 1..4 |-> plan[i].timeSlot] = <<"morning", "afternoon", "evening", "morning">>

\* the classifier answered with a complete_task intent whose params carry a
\* taskNumber and neither a taskId nor a taskName
NumbersTask(o) ==
  /\ "intentResult" \in DOMAIN o
  /\ HasIntent(o.intentResult)
  /\ o.intentResult.props.intent = "complete_task"
  /\ HasParams(o.intentResult)
  /\ "taskNumber" \in DOMAIN o.intentResult.props.params
  /\ ~Truthy(o.intentResult.props.params, "taskId")
  /\ ~Truthy(o.intentResult.props.params, "taskName")

PriorityRules(lowerText) ==
  << [applies |-> includes(lowerText, <<"l", "u", "n", "c", "h">>), slot |-> "afternoon"],
     [applies |-> \/ includes(lowerText, <<"a", "m">>)
                  \/ includes(lowerText, <<"m", "o", "r", "n", "i", "n", "g">>)
                  \/ MatchesMorningHour(lowerText),
      slot |-> "morning"],
     [applies |-> /\ includes(lowerText, <<"p", "m">>)
                  /\ \E hour \in {<<"6">>, <<"7">>, <<"8">>, <<"9">>, <<"1", "0">>} :
                       includes(lowerText, hour),
      slot |-> "evening"],
     [applies |-> \E token \in {<<"e", "v", "e", "n", "i", "n", "g">>,
                                 <<"n", "i", "g", "h", "t">>,
                                 <<"t", "o", "n", "i", "g", "h", "t">>} :
                    includes(lowerText, token),
      slot |-> "evening"] >>

\* for each text the slot of the first priority rule that applies, "none"
\* when none does
FirstPriorityRule ==
  [text \in CategorizeTexts |->
     LET rules == PriorityRules(toLowerCase(text))
         hits == {i \in 1..Len(rules) : rules[i].applies}
     IN  IF hits = {} THEN "none"
         ELSE rules[CHOOSE i \in hits : \A j \in hits : i <= j].slot]

\* for each text whether it contains 'lunch'
SaysLunch ==
  [text \in CategorizeTexts |-> includes(toLowerCase(text), <<"l", "u", "n", "c", "h">>)]

\* the step is a smart_add_task call of the API route with the text, which
\* adds a task
SmartAdds(text) ==
  /\ isVercel
  /\ Len(plan) < MaxTasks
  /\ ToolRequest("smart_add_task", [text |-> text])

\* the slot of the task, "undefined" when it has none
SlotOf(t) == IF HasTimeSlot(t) THEN t.timeSlot ELSE "undefined"

\* C16: categorizeTask tries lunch, the morning tokens, pm with an evening
\* hour and the evening tokens in this order and returns the slot of the
\* first that applies, before any keyword is counted; a text that contains
\* 'lunch' is categorized afternoon whatever else it contains
FirstRuleDecides ==
  [][\A text \in CategorizeTexts :
       SmartAdds(text) =>
         /\ FirstPriorityRule[text] # "none" =>
              SlotOf(plan'[Len(plan')]) = FirstPriorityRule[text]
         /\ SaysLunch[text] => SlotOf(plan'[Len(plan')]) = "afternoon"]_vars

TeamLunch9am == <<"T", "e", "a", "m", " ", "l", "u", "n", "c", "h", " ", "9", "a", "m">>

\* a task 'Team lunch 9am', which has lunch and morning tokens, was added in
\* the afternoon
LunchBeatsMorning ==
  \E i \in 1..Len(plan) : plan[i].text = TeamLunch9am /\ SlotOf(plan[i]) = "afternoon"

\* for each text its keyword counts
KeywordCounts ==
  [text \in CategorizeTexts |->
     [morning |-> KeywordScore(morningKeywords, toLowerCase(text)),
      afternoon |-> KeywordScore(afternoonKeywords, toLowerCase(text)),
      evening |-> KeywordScore(eveningKeywords, toLowerCase(text))]]

\* the slots in the priority that resolves ties
SlotPriority == <<"morning", "afternoon", "evening">>

\* C17: when no priority rule applies, categorizeTask returns undefined if
\* and only if the three keyword counts are zero; otherwise it returns a slot
\* whose count is the greatest, and every slot before it in the priority
\* morning, afternoon, evening has a smaller count
GreatestCountDecides ==
  [][\A text \in CategorizeTexts :
       (SmartAdds(text) /\ FirstPriorityRule[text] = "none") =>
         LET count == KeywordCounts[text]
             slot == SlotOf(plan'[Len(plan')])
         IN  /\ slot = "undefined" <=> \A s \in {"morning", "afternoon", "evening"} : count[s] = 0
             /\ slot # "undefined" =>
                  \E p \in 1..3 :
                    /\ slot = SlotPriority[p]
                    /\ \A q \in 1..3 : count[SlotPriority[q]] <= count[slot]
                    /\ \A q \in 1..(p - 1) : count[SlotPriority[q]] < count[slot]]_vars

DinnerMeeting == <<"D", "i", "n", "n", "e", "r", " ", "m", "e", "e", "t", "i", "n", "g">>

\* a task 'Dinner meeting', one afternoon and one evening keyword, was added
\* in the afternoon
TieGoesToEarlierSlot ==
  \E i \in 1..Len(plan) :
    /\ plan[i].text = DinnerMeeting
    /\ KeywordCounts[DinnerMeeting] = [morning |-> 0, afternoon |-> 1, evening |-> 1]
    /\ SlotOf(plan[i]) = "afternoon"

\* the non-completed tasks of the schedule whose text equals the name, case
\* apart, in iteration order
EqualsName(sched, taskName) ==
  SelectSeq(Pending(sched), LAMBDA t : toLowerCase(t.text) = toLowerCase(taskName))

\* C18: whenever a non-completed task's text equals the name, case apart,
\* findTaskByName returns the first such task with confidence 'exact',
\* whatever tasks before it in iteration order start with the name or
\* contain it
ExactMatchWins ==
  \A taskName \in TaskNames :
    EqualsName(schedule, taskName) # <<>> =>
      LET r == findTaskByName(taskName, schedule)
      IN  r.confidence = "exact" /\ r.task = EqualsName(schedule, taskName)[1]

\* 'Call mom' was resolved while 'Call mom today', which starts with the
\* name, came before it in iteration order: the match is the exact one
ExactAfterPrefixResolved ==
  /\ pc = "respond"
  /\ NamesTask(outcome)
  /\ outcome.intentResult.props.params.taskName = CallMom
  /\ Len(Pending(schedule)) = 2
  /\ Pending(schedule)[1].text = CallMomToday
  /\ Pending(schedule)[2].text = CallMom
  /\ outcome.matchResult.confidence = "exact"
  /\ outcome.matchResult.task = Pending(schedule)[2]

\* the custom_assistant prompt was called for the utterance
PromptCalled(assistantMessage) == assistantMessage \in {"prompt", "prompt error"}

\* C19: the custom_assistant prompt is called for an utterance if and only
\* if detectAndExecuteToolActions returned null for it; when the dispatcher
\* returned a message, the message is shown and the prompt is not called
PromptIffNull ==
  [][(pc = "respond" /\ pc' = "finally") =>
       /\ PromptCalled(reply') <=> outcome.toolResult = NullResult
       /\ outcome.toolResult.type = "message" => reply' = "tool"]_vars

\* the utterance 'complete call' got the prompt's response
PromptAnswered ==
  /\ pc = "finally"
  /\ messageToSend = <<"c", "o", "m", "p", "l", "e", "t", "e", " ", "c", "a", "l", "l">>
  /\ reply = "prompt"

\* C20: while an utterance is being processed (loading = true) no other is
\* taken up: no dispatch starts, the utterance and the schedule in flight
\* stay, and a handleSendMessage call made meanwhile calls no classifier and
\* no tool and writes nothing
OneUtteranceAtATime ==
  [][loading =>
       /\ pc' = "detect" =>
            pc = "detect" /\ messageToSend' = messageToSend /\ schedule' = schedule
       /\ (ignored' /\ ~ignored) =>
            plan' = plan /\ outcome' = outcome /\ pc' = pc /\ loading']_vars

\* handleSendMessage was called while an utterance was being processed; the
\* dispatcher has run once, for that utterance, and made its one tool call
SecondSendIgnored ==
  /\ loading
  /\ ignored
  /\ pc = "respond"
  /\ Len(outcome.calls) = 1

\* C21: once handleSendMessage has accepted an utterance (loading is true),
\* and provided each awaited call returns or fails (LiveSpec), loading
\* eventually is false and currentAction is cleared
HandlerRunsToCompletion == loading ~> (~loading /\ currentAction = NoAction)

\* the error path has reached the finally block, loading and the status line
\* still set
ErrorPathReachesFinally ==
  pc = "finally" /\ reply = "error" /\ loading /\ currentAction # NoAction

\* C22 as stated: detectAndExecuteToolActions never throws; for every
\* utterance, classifier result and tool-call outcome it completes with a
\* user-facing message or with null
DispatcherNeverThrows ==
  pc = "respond" => outcome.toolResult.type \in {"message", "null"}

\* at most one Client is ever created
AtMostOneClient == Len(clients) <= 1

\* C23 as stated: under any interleaving of concurrent API requests at most
\* one Client is created, and every request that obtains a client obtains
\* one whose connect() has already completed successfully
SingleConnectedClient ==
  /\ AtMostOneClient
  /\ \A r \in Requests :
       requests[r].pc = "obtained" => clients[requests[r].client] = "connected"

\* the entries made by calls first..last, in that order
EntriesOfCalls(first, last) == [i \in 1..(last - first + 1) |-> [call |-> first + i - 1]]

\* C24: after n logMCPInteraction calls the log holds min(n, 100) entries,
\* and they are those of the most recent calls in arrival order
LogHoldsMostRecent ==
  LET n == IF logged < MaxLogEntries THEN logged ELSE MaxLogEntries
  IN mcpLogs = EntriesOfCalls(logged - n + 1, logged)

\* the log was truncated
LogTruncated == logged > MaxLogEntries /\ Len(mcpLogs) = MaxLogEntries

\* the first four tiers of findTaskByName: a task's text equals the name,
\* starts with it, contains each of its words, contains it (case apart)
SatisfiesTier(k, t, taskName) ==
  LET taskText == toLowerCase(t.text)
      lowerTaskName == toLowerCase(taskName)
      taskWords == splitWhitespace(lowerTaskName)
  IN  CASE k = 1 -> taskText = lowerTaskName
        [] k = 2 -> startsWith(taskText, lowerTaskName)
        [] k = 3 -> \A w \in 1..Len(taskWords) : includes(taskText, taskWords[w])
        [] k = 4 -> includes(taskText, lowerTaskName)

\* morning, afternoon, evening, then the unscheduled tasks, each in list
\* order, without the completed ones
IterationOrder(sched) ==
  SelectSeq(sched.morning \o sched.afternoon \o sched.evening \o sched.unscheduled,
            LAMBDA t : ~t.completed)

\* the tasks that satisfy tier k, in iteration order
InTier(k, sched, taskName) ==
  SelectSeq(IterationOrder(sched), LAMBDA t : SatisfiesTier(k, t, taskName))

TabIsOfResolvedDate ==
  (pc = "respond" /\ "navigated" \in DOMAIN outcome) =>
    /\ outcome.navigated.date - outcome.today \in 0..7
    /\ outcome.navigated.tabId = outcome.navigated.date - outcome.today

\* the table of C26: tokens and their slots, in order
SlotTokens ==
  << [token |-> <<"m", "o", "r", "n", "i", "n", "g">>, slot |-> "morning"],
     [token |-> <<"a", "f", "t", "e", "r", "n", "o", "o", "n">>, slot |-> "afternoon"],
     [token |-> <<"e", "v", "e", "n", "i", "n", "g">>, slot |-> "evening"],
     [token |-> <<"a", "m">>, slot |-> "morning"],
     [token |-> <<"p", "m">>, slot |-> "afternoon"],
     [token |-> <<"n", "i", "g", "h", "t">>, slot |-> "evening"] >>

\* the entries of the table whose token occurs in the phrase, case apart
TokensIn(phrase) ==
  {i \in 1..Len(SlotTokens) : includes(toLowerCase(phrase), SlotTokens[i].token)}

\* C26: the time slot parseDayTimeSpec returns is the slot of the first
\* entry of the table whose token occurs in the qualifier; there is no slot
\* when no token occurs; and the slot is the one the phrase gives whichever
\* day token the qualifier contains, before or after the phrase
SlotIsFirstTableEntry ==
  parsed # NotParsed =>
    LET hits == TokensIn(qualifier.phrase)
    IN  IF hits = {}
          THEN "timeSlot" \notin DOMAIN parsed.result
          ELSE /\ "timeSlot" \in DOMAIN parsed.result
               /\ parsed.result.timeSlot =
                    SlotTokens[CHOOSE i \in hits : \A j \in hits : i <= j].slot

\* 'tuesday tonight 8pm' was parsed: pm comes before night in the table, so
\* the slot is the afternoon
SeveralTokensParsed ==
  /\ parsed # NotParsed
  /\ qualifier.phrase = <<"t", "o", "n", "i", "g", "h", "t", " ", "8", "p", "m">>
  /\ qualifier.day = <<"t", "u", "e", "s", "d", "a", "y">>
  /\ parsed.result.timeSlot = "afternoon"

\* what plan_day makes of a plan file
AfterPlanDay(vercel, tasks) == HandleToolRequest(vercel, tasks, "plan_day", NoFields, now).tasks

\* C27: plan_day changes nothing except the timeSlot of the tasks that had
\* no time slot and were not completed: the other tasks, every task's other
\* fields, the order and the number of tasks are unchanged; and a second
\* plan_day right after the first changes nothing
PlanDayChangesOnlySlots ==
  \A vercel \in BOOLEAN :
    LET after == AfterPlanDay(vercel, plan)
    IN  /\ Len(after) = Len(plan)
        /\ \A i \in 1..Len(plan) :
             IF ~HasTimeSlot(plan[i]) /\ ~plan[i].completed
               THEN /\ DOMAIN after[i] = DOMAIN plan[i] \cup {"timeSlot"}
                    /\ \A f \in DOMAIN plan[i] : after[i][f] = plan[i][f]
               ELSE after[i] = plan[i]
        /\ AfterPlanDay(vercel, after) = after

\* plan_day has run on a plan file with a completed task without a slot
\* before two tasks that waited for one: the completed task is as it was
PlanDaySkippedCompleted ==
  /\ Len(plan) >= 3
  /\ plan[1].completed /\ ~HasTimeSlot(plan[1])
  /\ ~plan[2].completed /\ HasTimeSlot(plan[2]) /\ plan[2].timeSlot = "morning"
  /\ ~plan[3].completed /\ HasTimeSlot(plan[3]) /\ plan[3].timeSlot = "afternoon"

\* names given to findTaskByName: those the classifier extracts, and names
\* with white space around a word, of one letter and of one space
ResolverNames ==
  TaskNames \cup {<<" ", "m", "o", "m", " ">>, <<"o">>, <<" ">>}

\* C28: findTaskByName never returns confidence 'medium': a task whose text
\* contains the whole name also contains each of its words, so the
\* all-words tier matches whenever the substring tier would
NeverMedium ==
  \A taskName \in ResolverNames :
    /\ findTaskByName(taskName, schedule).confidence # "medium"
    /\ \A i \in 1..Len(IterationOrder(schedule)) :
         SatisfiesTier(4, IterationOrder(schedule)[i], taskName)
           => SatisfiesTier(3, IterationOrder(schedule)[i], taskName)

\* 'Call mom' was resolved with 'Do call mom' the only task pending: the
\* text contains the name and does not start with it, and the match is
\* 'high'
SubstringResolvedHigh ==
  /\ pc = "respond"
  /\ NamesTask(outcome)
  /\ outcome.intentResult.props.params.taskName = CallMom
  /\ Len(IterationOrder(schedule)) = 1
  /\ IterationOrder(schedule)[1].text = DoCallMom
  /\ outcome.matchResult.confidence = "high"
  /\ outcome.matchResult.task = IterationOrder(schedule)[1]

\* the store contains the effect of a call that succeeded: the task an
\* add_task call appended, or the completed flag a complete_task call wrote
EffectInStore(done) ==
  IF done.call.name = "add_task"
    THEN \E i \in 1..Len(plan) :
           /\ plan[i].id = done.wrote[Len(done.wrote)].id
           /\ plan[i].text = done.call.args.text
    ELSE LET i == FindTaskIndex(plan, done.call.args.taskId)
         IN  /\ i # 0
             /\ plan[i].completed =
                  done.wrote[FindTaskIndex(done.wrote, done.call.args.taskId)].completed

\* C30 as stated: under any interleaving of two concurrent tool calls (two
\* add_task calls, or add_task with complete_task) the final store contains
\* the effects of both
BothEffectsInStore ==
  (/\ \A c \in Callers : calls[c].pc = "done" /\ calls[c].ok
   /\ \E c \in Callers : calls[c].call.name = "add_task"
   /\ calls["a"].call # calls["b"].call) =>
    \A c \in Callers : EffectInStore(calls[c])

====
